---- MODULE Spec2Model ----
(***************************************************************************)
(* Model of the text-segmentation engine of ebookmaker:                    *)
(*   splitIntoChunks / needsChunking   (lib/analyzer)                      *)
(*   analyzeChunk / mergeChunkResults / analyzeContent   (lib/gemini)      *)
(*                                                                         *)
(* A document is the sequence of its lines (content.split('\n')).  A line  *)
(* is abstracted to what the chunker reads of it: its length in characters *)
(* and whether it is blank (trim() === ''), a markdown heading             *)
(* (/^#{1,6}\s/) or other text.  The working buffer and every chunk's      *)
(* content hold lines by their 0-based index in the document, so that the  *)
(* text of a chunk is the lines at those indices joined by '\n'.           *)
(***************************************************************************)
EXTENDS Integers, Sequences, FiniteSets, TLC

\* ---------------------------------------------------------------- constants
CHUNK_SIZE == 8000
CHUNK_OVERLAP == 500

\* ------------------------------------------------------------------- bounds
MaxLines == 10
MaxSpecial == 2
MaxFailures == 1
MaxAnalyzeLines == 3
MaxFragments == 3
MaxTailTokens == 2
MaxDocTokens == 3
MaxBookTokens == 3
MaxReadTokens == 2

\* ------------------------------------------------------------ line alphabet
BlankLine   == [len |-> 0,    kind |-> "blank"]
TextLine    == [len |-> 999,  kind |-> "text"]
HeadingLine == [len |-> 1999, kind |-> "heading"]
LongLine    == [len |-> 7999, kind |-> "text"]

Alphabet == {BlankLine, TextLine, HeadingLine, LongLine}

Max(a, b) == IF a > b THEN a ELSE b

\* Documents of 1..MaxLines lines, at most MaxSpecial of them other than the
\* ordinary text line.
Docs ==
  UNION { UNION { { [k \in 1..n |-> IF k \in P THEN a[k] ELSE TextLine] :
                      a \in [P -> Alphabet \ {TextLine}] } :
                  P \in { Q \in SUBSET (1..n) : Cardinality(Q) <= MaxSpecial } } :
          n \in 1..MaxLines }

\* Documents handed to analyzeContent: every sequence of 1..MaxAnalyzeLines
\* lines of the alphabet.
AnalyzeDocs == UNION { [1..n -> Alphabet] : n \in 1..MaxAnalyzeLines }

\* Documents of exactly 20,000 characters: n1 lines of L1 characters followed
\* by n2 lines of L2 characters, all ordinary text, for the line lengths below
\* (n1 * (L1 + 1) + n2 * (L2 + 1) - 1 = 20000).
ExampleLineLengths == {40, 58, 80, 338, 6666, 20000}

RunDoc(L1, n1, L2, n2) ==
  [k \in 1..(n1 + n2) |-> [len |-> IF k <= n1 THEN L1 ELSE L2, kind |-> "text"]]

ExampleDocs ==
  { RunDoc(t[1], t[3], t[2], (20001 - t[3] * (t[1] + 1)) \div (t[2] + 1)) :
      t \in { u \in ExampleLineLengths \X ExampleLineLengths \X (1..500) :
                /\ u[3] * (u[1] + 1) <= 20001
                /\ (20001 - u[3] * (u[1] + 1)) % (u[2] + 1) = 0
                /\ (u[1] = u[2]) => (u[3] * (u[1] + 1) = 20001) } }

VARIABLES
  lines,          \* content.split('\n')
  pc,             \* position of the running call
  caller,         \* who called splitIntoChunks: "direct" or "analyze"
  i,              \* loop index of splitIntoChunks (0-based)
  currentChunk,   \* working buffer (line indices)
  currentLength,
  chunkStartLine,
  chunkIndex,
  chunks,         \* result of splitIntoChunks
  numbering,      \* the collaborator counts the lines of a text from 0 or 1
  ci,             \* loop index of analyzeContent over the chunks
  results,        \* per-chunk fragments collected by analyzeContent
  failures,       \* collaborator calls that threw or returned bad JSON
  analysis,       \* the ContentAnalysis returned by analyzeContent
  onProgress,     \* whether the caller supplied the progress callback
  inFlight,       \* collaborator calls issued and not yet settled
  callLog,        \* what the environment saw, in order: callback invocations,
                  \* collaborator calls and their settling, delays
  stage,          \* position of a call of a text function
  typed,          \* number of tokens appended to the argument so far
  headingLine,    \* the argument of isChapterHeading
  headingResult,  \* what isChapterHeading returned
  docText,        \* the text given to preprocessContent
  docOptions,     \* the PreprocessOptions of the last call
  preprocessed,   \* what preprocessContent returned for content
  reprocessed,    \* what it returned when given its own result
  lineBroken,     \* the text of the last call after Steps 1 to 4
  detectInput,    \* the lines entering Step 5 of the last call
  formatted,      \* what Step 5 pushed for each of these lines
  allCorrected,   \* proofreadContent / formatContentWithAI: the text put
                  \* together so far (`formatted` in formatContentWithAI)
  correctedContent, \* the text these two return
  bookText,       \* the text given to splitByChapters and to generateEPUB
  chaptersRaw,    \* what splitByChapters returned
  exportChapters, \* what splitIntoChapters returned to generateEPUB
  epubChapters,   \* the chapters generateEPUB goes on with
  tableOfContents, \* what extractTableOfContents returned to the export
  contentHtml,    \* the heading elements of what markdownToHtml returned
  readability,    \* what analyzeReadability returned for docText
  appended,       \* docText with more lines after it
  appendedReadability \* what analyzeReadability returned for `appended`

splitVars == <<i, currentChunk, currentLength, chunkStartLine, chunkIndex, chunks>>
analyzeVars == <<ci, results, failures, analysis, onProgress, inFlight, callLog>>
docVars == <<docText, docOptions, preprocessed, reprocessed, lineBroken, detectInput,
             formatted>>
editVars == <<allCorrected, correctedContent>>
chapterVars == <<chaptersRaw, exportChapters, epubChapters>>
tocVars == <<tableOfContents, contentHtml>>
readVars == <<readability, appended, appendedReadability>>
pageVars == <<bookText, chapterVars, tocVars, readVars>>
bookVars == <<editVars, pageVars>>
textVars == <<stage, typed, headingLine, headingResult, docVars, bookVars>>
vars == <<lines, pc, caller, splitVars, numbering, analyzeVars, textVars>>

\* ------------------------------------------------------------ pure helpers
\* sum of f[lo..hi], by halves
RECURSIVE SumRange(_, _, _)
SumRange(f, lo, hi) ==
  IF lo > hi THEN 0
  ELSE IF lo = hi THEN f[lo]
  ELSE LET mid == (lo + hi) \div 2
       IN SumRange(f, lo, mid) + SumRange(f, mid + 1, hi)

\* total length of the lines at the indices idxs
SumLen(doc, idxs) ==
  SumRange([k \in DOMAIN idxs |-> doc[idxs[k] + 1].len], 1, Len(idxs))

\* idxs.map(k => doc[k]).join('\n').length
JoinLength(doc, idxs) ==
  IF idxs = <<>> THEN 0 ELSE SumLen(doc, idxs) + (Len(idxs) - 1)

Range0(n) == [k \in 1..n |-> k - 1]

\* content.length for the whole document
DocLength(doc) == JoinLength(doc, Range0(Len(doc)))

\* variant: the threshold itself already counts as long
needsChunking_atThreshold(doc) == DocLength(doc) >= CHUNK_SIZE

needsChunking(doc) == DocLength(doc) > CHUNK_SIZE

lineLength(line) == line.len + 1

\* currentChunk[j].trim() === '' || /^#{1,6}\s/.test(currentChunk[j])
IsSplitPoint(line) == line.kind = "blank" \/ line.kind = "heading"

\* Math.floor(n * 0.7) in IEEE double arithmetic: 0.7 is stored slightly
\* below 7/10, so for some multiples of ten the product falls just under the
\* integer 7n/10 and floors to one less.
FloorSeventy(n) ==
  IF n % 10 = 0 /\ \E e \in 0..24 : 5 * (2 ^ e) < 2 * n /\ 7 * n <= 20 * (2 ^ e)
  THEN (7 * n) \div 10 - 1
  ELSE (7 * n) \div 10

\* the backward search for a split point; buf holds line indices
FindSplitIndex(doc, buf) ==
  LET lo == FloorSeventy(Len(buf))
      hits == { j \in lo..(Len(buf) - 1) : IsSplitPoint(doc[buf[j + 1] + 1]) }
  IN IF hits = {} THEN Len(buf)
     ELSE (CHOOSE j \in hits : \A k \in hits : k <= j) + 1

\* variant: the overlap budget divided by 8 instead of 80
overlapLines_perEight == (CHUNK_OVERLAP + 7) \div 8

\* variant: one overlap line too many
overlapLines_plusOne == (CHUNK_OVERLAP + 79) \div 80 + 1

\* Math.ceil(CHUNK_OVERLAP / 80)
overlapLines == (CHUNK_OVERLAP + 79) \div 80

\* variant: the overlap window alone, without the lines after the split point
keepLines_windowOnly(buf, splitIndex) ==
  SubSeq(buf, Max(splitIndex - overlapLines, 0) + 1, splitIndex)

\* currentChunk.slice(Math.max(splitIndex - overlapLines, 0))
keepLines(buf, splitIndex) ==
  SubSeq(buf, Max(splitIndex - overlapLines, 0) + 1, Len(buf))

\* variant: every closed chunk is flagged as the last one
ClosedChunk_flaggedLast(cs, index, buf, splitIndex, start) ==
  [index |-> index,
   content |-> SubSeq(buf, 1, splitIndex),
   startLine |-> start,
   endLine |-> start + splitIndex - 1,
   isFirst |-> (Len(cs) = 0),
   isLast |-> TRUE]

\* lines 301-310: the chunk closed inside the loop
ClosedChunk(cs, index, buf, splitIndex, start) ==
  [index |-> index,
   content |-> SubSeq(buf, 1, splitIndex),
   startLine |-> start,
   endLine |-> start + splitIndex - 1,
   isFirst |-> (Len(cs) = 0),
   isLast |-> FALSE]

\* line 317: chunkStartLine = i - keepLines.length + 1
NextStartLine(idx, keep) == idx - Len(keep) + 1

\* lines 326-333: the chunk pushed after the loop
FinalChunk(cs, index, buf, start, nLines) ==
  [index |-> index,
   content |-> buf,
   startLine |-> start,
   endLine |-> nLines - 1,
   isFirst |-> (Len(cs) = 0),
   isLast |-> TRUE]

\* chunks[chunks.length - 1].isLast = true
MarkLast(cs) ==
  IF Len(cs) > 0
  THEN [cs EXCEPT ![Len(cs)] = [@ EXCEPT !.isLast = TRUE]]
  ELSE cs

\* ------------------------------------------------ the analysis collaborator
\* The collaborator is outside the repository.  It is modelled as a fixed
\* function of the text it is given: it reports every markdown heading line
\* and an image point at every blank line, each at its line within the text,
\* counted from `base`.  A heading's title stands for the heading line itself
\* (its index in the document), a point's section likewise.
RECURSIVE CollabTOC(_, _, _, _)
CollabTOC(doc, text, r, base) ==
  IF r >= Len(text) THEN <<>>
  ELSE (IF doc[text[r + 1] + 1].kind = "heading"
        THEN <<[title |-> text[r + 1], position |-> r + base]>>
        ELSE <<>>) \o CollabTOC(doc, text, r + 1, base)

RECURSIVE CollabImagePoints(_, _, _, _)
CollabImagePoints(doc, text, r, base) ==
  IF r >= Len(text) THEN <<>>
  ELSE (IF doc[text[r + 1] + 1].kind = "blank"
        THEN <<[section |-> text[r + 1], lineNumber |-> r + base]>>
        ELSE <<>>) \o CollabImagePoints(doc, text, r + 1, base)

\* the collaborator's classification of a text
CollabContentType(doc, text) ==
  IF \E k \in DOMAIN text : doc[text[k] + 1].kind = "heading" THEN "technical"
  ELSE IF \E k \in DOMAIN text : doc[text[k] + 1].kind = "blank" THEN "fiction"
  ELSE "non-fiction"

\* ------------------------------------------------------------ analyzeChunk
\* The uuidv4 ids given to the entries are fresh and never read; they are left
\* out of the entries.
\* position: (entry.position || 0) + chunk.startLine
RebaseTOC(toc, chunk) ==
  [k \in DOMAIN toc |-> [toc[k] EXCEPT !.position = @ + chunk.startLine]]

\* lineNumber: (point.lineNumber || 0) + chunk.startLine
RebaseImagePoints(points, chunk) ==
  [k \in DOMAIN points |-> [points[k] EXCEPT !.lineNumber = @ + chunk.startLine]]

EmptyFragment ==
  [tableOfContents |-> <<>>, imagePoints |-> <<>>, contentType |-> "non-fiction"]

analyzeChunk(doc, chunk, base, ok) ==
  IF ok
  THEN [tableOfContents |-> RebaseTOC(CollabTOC(doc, chunk.content, 0, base), chunk),
        imagePoints |-> RebaseImagePoints(
                          CollabImagePoints(doc, chunk.content, 0, base), chunk),
        contentType |-> CollabContentType(doc, chunk.content)]
  ELSE EmptyFragment

\* ------------------------------------------------------- mergeChunkResults
RECURSIVE FlatMap(_, _)
FlatMap(rs, field) ==
  IF rs = <<>> THEN <<>> ELSE Head(rs)[field] \o FlatMap(Tail(rs), field)

\* Array.prototype.sort with (a, b) => a[key] - b[key]: stable, ascending
\* variant: the new element goes before the elements it ties with
RECURSIVE InsertSorted_beforeTies(_, _, _)
InsertSorted_beforeTies(sorted, e, key) ==
  IF sorted = <<>> THEN <<e>>
  ELSE IF e[key] <= Head(sorted)[key] THEN <<e>> \o sorted
  ELSE <<Head(sorted)>> \o InsertSorted_beforeTies(Tail(sorted), e, key)

RECURSIVE InsertSorted(_, _, _)
InsertSorted(sorted, e, key) ==
  IF sorted = <<>> THEN <<e>>
  ELSE IF e[key] < Head(sorted)[key] THEN <<e>> \o sorted
  ELSE <<Head(sorted)>> \o InsertSorted(Tail(sorted), e, key)

RECURSIVE SortBy(_, _)
SortBy(s, key) ==
  IF s = <<>> THEN <<>>
  ELSE InsertSorted(SortBy(SubSeq(s, 1, Len(s) - 1), key), s[Len(s)], key)

\* the classifications in order of first occurrence (insertion order of the
\* counting object)
RECURSIVE FirstSeen(_, _)
FirstSeen(rs, seen) ==
  IF rs = <<>> THEN seen
  ELSE FirstSeen(Tail(rs),
         IF \E k \in DOMAIN seen : seen[k] = Head(rs).contentType
         THEN seen ELSE Append(seen, Head(rs).contentType))

CountOf(rs, ct) == Cardinality({ k \in DOMAIN rs : rs[k].contentType = ct })

\* variant: among the most frequent classifications the last one seen wins
MajorityType_lastSeen(rs) ==
  LET order == FirstSeen(rs, <<>>)
  IN IF order = <<>> THEN "non-fiction"
     ELSE order[CHOOSE k \in DOMAIN order :
                  /\ \A m \in DOMAIN order : CountOf(rs, order[m]) <= CountOf(rs, order[k])
                  /\ \A m \in (k + 1)..Len(order) : CountOf(rs, order[m]) < CountOf(rs, order[k])]

\* Object.entries(counts).sort((a, b) => b[1] - a[1])[0]?.[0] || 'non-fiction'
MajorityType(rs) ==
  LET order == FirstSeen(rs, <<>>)
  IN IF order = <<>> THEN "non-fiction"
     ELSE order[CHOOSE k \in DOMAIN order :
                  /\ \A m \in DOMAIN order : CountOf(rs, order[m]) <= CountOf(rs, order[k])
                  /\ \A m \in 1..(k - 1) : CountOf(rs, order[m]) < CountOf(rs, order[k])]

\* wordCount and estimatedPages are passed through from the caller's word count
\* and are left out: a line of the model carries no words.
mergeChunkResults(rs) ==
  [contentType |-> MajorityType(rs),
   tableOfContents |-> SortBy(FlatMap(rs, "tableOfContents"), "position"),
   imagePoints |-> SortBy(FlatMap(rs, "imagePoints"), "lineNumber")]

\* the single-call path of analyzeContent: the collaborator's answer for the
\* whole document is returned as it is, no rebasing and no sorting
SingleAnalysis(doc, base, ok) ==
  IF ok
  THEN [contentType |-> CollabContentType(doc, Range0(Len(doc))),
        tableOfContents |-> CollabTOC(doc, Range0(Len(doc)), 0, base),
        imagePoints |-> CollabImagePoints(doc, Range0(Len(doc)), 0, base)]
  ELSE [contentType |-> "non-fiction", tableOfContents |-> <<>>, imagePoints |-> <<>>]

NoAnalysis == [contentType |-> "none", tableOfContents |-> <<>>, imagePoints |-> <<>>]

\* ------------------------------------------------------------- characters
\* A string is the sequence of its characters (UTF-16 code units).  An ASCII
\* character is written as itself, any other as its code point: "U+C7A5" is
\* the Hangul syllable of the 'chapter' marker, "U+FF1A" the fullwidth colon.
HexDigits ==
  <<"0", "1", "2", "3", "4", "5", "6", "7", "8", "9", "A", "B", "C", "D", "E", "F">>
Hex(n) == HexDigits[(n % 16) + 1]

\* the code unit n, for n from 128 on
Char(n) == "U+" \o Hex(n \div 4096) \o Hex(n \div 256) \o Hex(n \div 16) \o Hex(n)

\* the code units lo, lo + step, ... up to hi
CodeUnits(lo, hi, step) == { Char(n) : n \in { m \in lo..hi : (m - lo) % step = 0 } }

\* the code units of a table of ranges <<lo, hi>>
InRanges(rs) == UNION { CodeUnits(rs[k][1], rs[k][2], 1) : k \in DOMAIN rs }

\* the surrogate pairs of a table of rows <<high, low, last low>>
PairsInRanges(rs) ==
  UNION { { <<Char(rs[k][1]), Char(n)>> : n \in rs[k][2]..rs[k][3] } : k \in DOMAIN rs }

\* \s of a regular expression and what String.prototype.trim removes: the
\* WhiteSpace and LineTerminator code units of ECMAScript (tab, LF, VT, FF, CR,
\* space, U+00A0, U+1680, U+2000 to U+200A, U+2028, U+2029, U+202F, U+205F,
\* U+3000, U+FEFF); the form feed is written "\f" or "U+000C"
Whitespace ==
  {" ", "\t", "\n", "\r", "\f", "U+000B", "U+000C", "U+00A0", "U+1680", "U+2028",
   "U+2029", "U+202F", "U+205F", "U+3000", "U+FEFF"} \cup CodeUnits(8192, 8202, 1)

\* the code units that '.' does not match
LineTerminators == {"\n", "\r", "U+2028", "U+2029"}
Digits == {"0", "1", "2", "3", "4", "5", "6", "7", "8", "9"}
UpperLetters == 
  <<"A", "B", "C", "D", "E", "F", "G", "H", "I", "J", "K", "L", "M",
    "N", "O", "P", "Q", "R", "S", "T", "U", "V", "W", "X", "Y", "Z">>
LowerLetters == 
  <<"a", "b", "c", "d", "e", "f", "g", "h", "i", "j", "k", "l", "m",
    "n", "o", "p", "q", "r", "s", "t", "u", "v", "w", "x", "y", "z">>
UpperSet == { UpperLetters[k] : k \in DOMAIN UpperLetters }
LowerSet == { LowerLetters[k] : k \in DOMAIN LowerLetters }

\* Hangul syllables the patterns name
KoJe == "U+C81C"
KoJang == "U+C7A5"
KoPyeon == "U+D3B8"
KoBu == "U+BD80"
KoJeol == "U+C808"

\* the class [가-힣]: the 11172 syllables U+AC00 to U+D7A3
HangulSet == CodeUnits(44032, 55203, 1)

\* The case conversions of String.prototype.toUpperCase and toLowerCase are
\* those of the Unicode character database (UnicodeData.txt and
\* SpecialCasing.txt, the mappings that depend on no language).
\* A row <<lo, hi, step, delta>> of a table of runs says that each of the
\* code units lo, lo + step, ... up to hi becomes the code unit delta further;
\* a row <<high, low, n, high2, low2>> of a table of pairs that the n letters
\* from the surrogate pair (high, low) on become those from (high2, low2) on.
CaseRun(r) ==
  { <<Char(n), <<Char(n + r[4])>>>> : n \in { m \in r[1]..r[2] : (m - r[1]) % r[3] = 0 } }

CasePairRun(r) ==
  { << <<Char(r[1]), Char(r[2] + j)>>, <<Char(r[4]), Char(r[5] + j)>> >> : j \in 0..(r[3] - 1) }

\* the function holding the pairs <<argument, value>> of a set
TableOf(pairs) ==
  [c \in { p[1] : p \in pairs } |-> (CHOOSE p \in pairs : p[1] = c)[2]]

UpperRuns ==
  <<
    <<181, 181, 1, 743>>, <<224, 246, 1, -32>>, <<248, 254, 1, -32>>, <<255, 255, 1,
    121>>, <<257, 303, 2, -1>>, <<307, 311, 2, -1>>, <<314, 328, 2, -1>>, <<331, 375, 2,
    -1>>, <<378, 382, 2, -1>>, <<384, 384, 1, 195>>, <<387, 389, 2, -1>>, <<392, 392, 1,
    -1>>, <<396, 396, 1, -1>>, <<402, 402, 1, -1>>, <<405, 405, 1, 97>>, <<409, 409, 1,
    -1>>, <<410, 410, 1, 163>>, <<411, 411, 1, 42561>>, <<414, 414, 1, 130>>, <<417,
    421, 2, -1>>, <<424, 424, 1, -1>>, <<429, 429, 1, -1>>, <<432, 432, 1, -1>>, <<436,
    438, 2, -1>>, <<441, 441, 1, -1>>, <<445, 445, 1, -1>>, <<447, 447, 1, 56>>, <<453,
    453, 1, -1>>, <<454, 454, 1, -2>>, <<456, 456, 1, -1>>, <<457, 457, 1, -2>>, <<459,
    459, 1, -1>>, <<460, 460, 1, -2>>, <<462, 476, 2, -1>>, <<477, 477, 1, -79>>, <<479,
    495, 2, -1>>, <<498, 498, 1, -1>>, <<499, 499, 1, -2>>, <<501, 501, 1, -1>>, <<505,
    543, 2, -1>>, <<547, 563, 2, -1>>, <<572, 572, 1, -1>>, <<575, 576, 1, 10815>>,
    <<578, 578, 1, -1>>, <<583, 591, 2, -1>>, <<592, 592, 1, 10783>>, <<593, 593, 1,
    10780>>, <<594, 594, 1, 10782>>, <<595, 595, 1, -210>>, <<596, 596, 1, -206>>,
    <<598, 599, 1, -205>>, <<601, 601, 1, -202>>, <<603, 603, 1, -203>>, <<604, 604, 1,
    42319>>, <<608, 608, 1, -205>>, <<609, 609, 1, 42315>>, <<611, 611, 1, -207>>,
    <<612, 612, 1, 42343>>, <<613, 613, 1, 42280>>, <<614, 614, 1, 42308>>, <<616, 616,
    1, -209>>, <<617, 617, 1, -211>>, <<618, 618, 1, 42308>>, <<619, 619, 1, 10743>>,
    <<620, 620, 1, 42305>>, <<623, 623, 1, -211>>, <<625, 625, 1, 10749>>, <<626, 626,
    1, -213>>, <<629, 629, 1, -214>>, <<637, 637, 1, 10727>>, <<640, 640, 1, -218>>,
    <<642, 642, 1, 42307>>, <<643, 643, 1, -218>>, <<647, 647, 1, 42282>>, <<648, 648,
    1, -218>>, <<649, 649, 1, -69>>, <<650, 651, 1, -217>>, <<652, 652, 1, -71>>, <<658,
    658, 1, -219>>, <<669, 669, 1, 42261>>, <<670, 670, 1, 42258>>, <<837, 837, 1, 84>>,
    <<881, 883, 2, -1>>, <<887, 887, 1, -1>>, <<891, 893, 1, 130>>, <<940, 940, 1,
    -38>>, <<941, 943, 1, -37>>, <<945, 961, 1, -32>>, <<962, 962, 1, -31>>, <<963, 971,
    1, -32>>, <<972, 972, 1, -64>>, <<973, 974, 1, -63>>, <<976, 976, 1, -62>>, <<977,
    977, 1, -57>>, <<981, 981, 1, -47>>, <<982, 982, 1, -54>>, <<983, 983, 1, -8>>,
    <<985, 1007, 2, -1>>, <<1008, 1008, 1, -86>>, <<1009, 1009, 1, -80>>, <<1010, 1010,
    1, 7>>, <<1011, 1011, 1, -116>>, <<1013, 1013, 1, -96>>, <<1016, 1016, 1, -1>>,
    <<1019, 1019, 1, -1>>, <<1072, 1103, 1, -32>>, <<1104, 1119, 1, -80>>, <<1121, 1153,
    2, -1>>, <<1163, 1215, 2, -1>>, <<1218, 1230, 2, -1>>, <<1231, 1231, 1, -15>>,
    <<1233, 1327, 2, -1>>, <<1377, 1414, 1, -48>>, <<4304, 4346, 1, 3008>>, <<4349,
    4351, 1, 3008>>, <<5112, 5117, 1, -8>>, <<7296, 7296, 1, -6254>>, <<7297, 7297, 1,
    -6253>>, <<7298, 7298, 1, -6244>>, <<7299, 7300, 1, -6242>>, <<7301, 7301, 1,
    -6243>>, <<7302, 7302, 1, -6236>>, <<7303, 7303, 1, -6181>>, <<7304, 7304, 1,
    35266>>, <<7306, 7306, 1, -1>>, <<7545, 7545, 1, 35332>>, <<7549, 7549, 1, 3814>>,
    <<7566, 7566, 1, 35384>>, <<7681, 7829, 2, -1>>, <<7835, 7835, 1, -59>>, <<7841,
    7935, 2, -1>>, <<7936, 7943, 1, 8>>, <<7952, 7957, 1, 8>>, <<7968, 7975, 1, 8>>,
    <<7984, 7991, 1, 8>>, <<8000, 8005, 1, 8>>, <<8017, 8023, 2, 8>>, <<8032, 8039, 1,
    8>>, <<8048, 8049, 1, 74>>, <<8050, 8053, 1, 86>>, <<8054, 8055, 1, 100>>, <<8056,
    8057, 1, 128>>, <<8058, 8059, 1, 112>>, <<8060, 8061, 1, 126>>, <<8112, 8113, 1,
    8>>, <<8126, 8126, 1, -7205>>, <<8144, 8145, 1, 8>>, <<8160, 8161, 1, 8>>, <<8165,
    8165, 1, 7>>, <<8526, 8526, 1, -28>>, <<8560, 8575, 1, -16>>, <<8580, 8580, 1, -1>>,
    <<9424, 9449, 1, -26>>, <<11312, 11359, 1, -48>>, <<11361, 11361, 1, -1>>, <<11365,
    11365, 1, -10795>>, <<11366, 11366, 1, -10792>>, <<11368, 11372, 2, -1>>, <<11379,
    11379, 1, -1>>, <<11382, 11382, 1, -1>>, <<11393, 11491, 2, -1>>, <<11500, 11502, 2,
    -1>>, <<11507, 11507, 1, -1>>, <<11520, 11557, 1, -7264>>, <<11559, 11559, 1,
    -7264>>, <<11565, 11565, 1, -7264>>, <<42561, 42605, 2, -1>>, <<42625, 42651, 2,
    -1>>, <<42787, 42799, 2, -1>>, <<42803, 42863, 2, -1>>, <<42874, 42876, 2, -1>>,
    <<42879, 42887, 2, -1>>, <<42892, 42892, 1, -1>>, <<42897, 42899, 2, -1>>, <<42900,
    42900, 1, 48>>, <<42903, 42921, 2, -1>>, <<42933, 42947, 2, -1>>, <<42952, 42954, 2,
    -1>>, <<42957, 42971, 2, -1>>, <<42998, 42998, 1, -1>>, <<43859, 43859, 1, -928>>,
    <<43888, 43967, 1, -38864>>, <<65345, 65370, 1, -32>>
  >>

\* the code units that become an ASCII letter or more than one code unit
UpperSpecial ==
  {
    <<"U+00DF", <<"S", "S">>>>, <<"U+0131", <<"I">>>>, <<"U+0149", <<"U+02BC", "N">>>>,
    <<"U+017F", <<"S">>>>, <<"U+01F0", <<"J", "U+030C">>>>, <<"U+0390", <<"U+0399",
    "U+0308", "U+0301">>>>, <<"U+03B0", <<"U+03A5", "U+0308", "U+0301">>>>, <<"U+0587",
    <<"U+0535", "U+0552">>>>, <<"U+1E96", <<"H", "U+0331">>>>, <<"U+1E97", <<"T",
    "U+0308">>>>, <<"U+1E98", <<"W", "U+030A">>>>, <<"U+1E99", <<"Y", "U+030A">>>>,
    <<"U+1E9A", <<"A", "U+02BE">>>>, <<"U+1F50", <<"U+03A5", "U+0313">>>>, <<"U+1F52",
    <<"U+03A5", "U+0313", "U+0300">>>>, <<"U+1F54", <<"U+03A5", "U+0313", "U+0301">>>>,
    <<"U+1F56", <<"U+03A5", "U+0313", "U+0342">>>>, <<"U+1F80", <<"U+1F08",
    "U+0399">>>>, <<"U+1F81", <<"U+1F09", "U+0399">>>>, <<"U+1F82", <<"U+1F0A",
    "U+0399">>>>, <<"U+1F83", <<"U+1F0B", "U+0399">>>>, <<"U+1F84", <<"U+1F0C",
    "U+0399">>>>, <<"U+1F85", <<"U+1F0D", "U+0399">>>>, <<"U+1F86", <<"U+1F0E",
    "U+0399">>>>, <<"U+1F87", <<"U+1F0F", "U+0399">>>>, <<"U+1F88", <<"U+1F08",
    "U+0399">>>>, <<"U+1F89", <<"U+1F09", "U+0399">>>>, <<"U+1F8A", <<"U+1F0A",
    "U+0399">>>>, <<"U+1F8B", <<"U+1F0B", "U+0399">>>>, <<"U+1F8C", <<"U+1F0C",
    "U+0399">>>>, <<"U+1F8D", <<"U+1F0D", "U+0399">>>>, <<"U+1F8E", <<"U+1F0E",
    "U+0399">>>>, <<"U+1F8F", <<"U+1F0F", "U+0399">>>>, <<"U+1F90", <<"U+1F28",
    "U+0399">>>>, <<"U+1F91", <<"U+1F29", "U+0399">>>>, <<"U+1F92", <<"U+1F2A",
    "U+0399">>>>, <<"U+1F93", <<"U+1F2B", "U+0399">>>>, <<"U+1F94", <<"U+1F2C",
    "U+0399">>>>, <<"U+1F95", <<"U+1F2D", "U+0399">>>>, <<"U+1F96", <<"U+1F2E",
    "U+0399">>>>, <<"U+1F97", <<"U+1F2F", "U+0399">>>>, <<"U+1F98", <<"U+1F28",
    "U+0399">>>>, <<"U+1F99", <<"U+1F29", "U+0399">>>>, <<"U+1F9A", <<"U+1F2A",
    "U+0399">>>>, <<"U+1F9B", <<"U+1F2B", "U+0399">>>>, <<"U+1F9C", <<"U+1F2C",
    "U+0399">>>>, <<"U+1F9D", <<"U+1F2D", "U+0399">>>>, <<"U+1F9E", <<"U+1F2E",
    "U+0399">>>>, <<"U+1F9F", <<"U+1F2F", "U+0399">>>>, <<"U+1FA0", <<"U+1F68",
    "U+0399">>>>, <<"U+1FA1", <<"U+1F69", "U+0399">>>>, <<"U+1FA2", <<"U+1F6A",
    "U+0399">>>>, <<"U+1FA3", <<"U+1F6B", "U+0399">>>>, <<"U+1FA4", <<"U+1F6C",
    "U+0399">>>>, <<"U+1FA5", <<"U+1F6D", "U+0399">>>>, <<"U+1FA6", <<"U+1F6E",
    "U+0399">>>>, <<"U+1FA7", <<"U+1F6F", "U+0399">>>>, <<"U+1FA8", <<"U+1F68",
    "U+0399">>>>, <<"U+1FA9", <<"U+1F69", "U+0399">>>>, <<"U+1FAA", <<"U+1F6A",
    "U+0399">>>>, <<"U+1FAB", <<"U+1F6B", "U+0399">>>>, <<"U+1FAC", <<"U+1F6C",
    "U+0399">>>>, <<"U+1FAD", <<"U+1F6D", "U+0399">>>>, <<"U+1FAE", <<"U+1F6E",
    "U+0399">>>>, <<"U+1FAF", <<"U+1F6F", "U+0399">>>>, <<"U+1FB2", <<"U+1FBA",
    "U+0399">>>>, <<"U+1FB3", <<"U+0391", "U+0399">>>>, <<"U+1FB4", <<"U+0386",
    "U+0399">>>>, <<"U+1FB6", <<"U+0391", "U+0342">>>>, <<"U+1FB7", <<"U+0391",
    "U+0342", "U+0399">>>>, <<"U+1FBC", <<"U+0391", "U+0399">>>>, <<"U+1FC2",
    <<"U+1FCA", "U+0399">>>>, <<"U+1FC3", <<"U+0397", "U+0399">>>>, <<"U+1FC4",
    <<"U+0389", "U+0399">>>>, <<"U+1FC6", <<"U+0397", "U+0342">>>>, <<"U+1FC7",
    <<"U+0397", "U+0342", "U+0399">>>>, <<"U+1FCC", <<"U+0397", "U+0399">>>>,
    <<"U+1FD2", <<"U+0399", "U+0308", "U+0300">>>>, <<"U+1FD3", <<"U+0399", "U+0308",
    "U+0301">>>>, <<"U+1FD6", <<"U+0399", "U+0342">>>>, <<"U+1FD7", <<"U+0399",
    "U+0308", "U+0342">>>>, <<"U+1FE2", <<"U+03A5", "U+0308", "U+0300">>>>, <<"U+1FE3",
    <<"U+03A5", "U+0308", "U+0301">>>>, <<"U+1FE4", <<"U+03A1", "U+0313">>>>,
    <<"U+1FE6", <<"U+03A5", "U+0342">>>>, <<"U+1FE7", <<"U+03A5", "U+0308",
    "U+0342">>>>, <<"U+1FF2", <<"U+1FFA", "U+0399">>>>, <<"U+1FF3", <<"U+03A9",
    "U+0399">>>>, <<"U+1FF4", <<"U+038F", "U+0399">>>>, <<"U+1FF6", <<"U+03A9",
    "U+0342">>>>, <<"U+1FF7", <<"U+03A9", "U+0342", "U+0399">>>>, <<"U+1FFC",
    <<"U+03A9", "U+0399">>>>, <<"U+FB00", <<"F", "F">>>>, <<"U+FB01", <<"F", "I">>>>,
    <<"U+FB02", <<"F", "L">>>>, <<"U+FB03", <<"F", "F", "I">>>>, <<"U+FB04", <<"F", "F",
    "L">>>>, <<"U+FB05", <<"S", "T">>>>, <<"U+FB06", <<"S", "T">>>>, <<"U+FB13",
    <<"U+0544", "U+0546">>>>, <<"U+FB14", <<"U+0544", "U+0535">>>>, <<"U+FB15",
    <<"U+0544", "U+053B">>>>, <<"U+FB16", <<"U+054E", "U+0546">>>>, <<"U+FB17",
    <<"U+0544", "U+053D">>>>
  }

UpperPairRuns ==
  <<
    <<55297, 56360, 40, 55297, 56320>>, <<55297, 56536, 36, 55297, 56496>>, <<55297,
    56727, 11, 55297, 56688>>, <<55297, 56739, 15, 55297, 56700>>, <<55297, 56755, 7,
    55297, 56716>>, <<55297, 56763, 2, 55297, 56724>>, <<55299, 56512, 51, 55299,
    56448>>, <<55299, 56688, 22, 55299, 56656>>, <<55302, 56512, 32, 55302, 56480>>,
    <<55323, 56928, 32, 55323, 56896>>, <<55323, 57019, 25, 55323, 56992>>, <<55354,
    56610, 34, 55354, 56576>>
  >>

UpperTable ==
  TableOf({ <<LowerLetters[k], <<UpperLetters[k]>>>> : k \in DOMAIN LowerLetters }
          \cup UpperSpecial
          \cup UNION { CaseRun(UpperRuns[k]) : k \in DOMAIN UpperRuns })

UpperPairTable == TableOf(UNION { CasePairRun(UpperPairRuns[k]) : k \in DOMAIN UpperPairRuns })

\* what a table of conversions makes of the code unit c
Converted(table, c) == IF c \in DOMAIN table THEN table[c] ELSE <<c>>

\* toUpperCase of one code unit that is not half of a surrogate pair
ToUpper(c) == Converted(UpperTable, c)

\* the code unit c, or u[1] when the upper case u of c is one code unit and,
\* for c outside ASCII, is outside ASCII as well
Folded(c, u) ==
  IF Len(u) # 1 THEN c
  ELSE IF u[1] \in UpperSet /\ c \notin LowerSet /\ c \notin UpperSet THEN c
  ELSE u[1]

\* Canonicalize of a regular expression with the i flag and without the u
\* flag
Canonicalize(c) == Folded(c, ToUpper(c))

\* the concatenation of pieces[lo..hi], by halves
RECURSIVE FlatRange(_, _, _)
FlatRange(pieces, lo, hi) ==
  IF lo > hi THEN <<>>
  ELSE IF lo = hi THEN pieces[lo]
  ELSE LET mid == (lo + hi) \div 2
       IN FlatRange(pieces, lo, mid) \o FlatRange(pieces, mid + 1, hi)

Flat(pieces) == FlatRange(pieces, 1, Len(pieces))

\* the conversion of the code unit at index k of s by a table of code units
\* and a table of surrogate pairs
ConvertAt(s, k, units, pairs) ==
  IF k < Len(s) /\ <<s[k], s[k + 1]>> \in DOMAIN pairs THEN <<pairs[<<s[k], s[k + 1]>>][1]>>
  ELSE IF k > 1 /\ <<s[k - 1], s[k]>> \in DOMAIN pairs THEN <<pairs[<<s[k - 1], s[k]>>][2]>>
  ELSE Converted(units, s[k])

\* String.prototype.toUpperCase
toUpperCase(s) ==
  Flat([k \in DOMAIN s |-> ConvertAt(s, k, UpperTable, UpperPairTable)])

\* String.prototype.trim
trim(s) ==
  IF \A k \in DOMAIN s : s[k] \in Whitespace THEN <<>>
  ELSE LET a == CHOOSE k \in DOMAIN s :
                  s[k] \notin Whitespace /\ \A m \in 1..(k - 1) : s[m] \in Whitespace
           b == CHOOSE k \in DOMAIN s :
                  s[k] \notin Whitespace /\ \A m \in (k + 1)..Len(s) : s[m] \in Whitespace
       IN SubSeq(s, a, b)

\* index just after the longest run of characters of the class cls that
\* starts at index p (p itself when there is none): a greedy cls*
RunEnd(s, p, cls) ==
  CHOOSE q \in p..(Len(s) + 1) :
    /\ \A m \in p..(q - 1) : s[m] \in cls
    /\ q = Len(s) + 1 \/ s[q] \notin cls

\* s continues at index p with the word w; with the i flag, up to case
StartsWithAt(s, p, w) ==
  /\ p + Len(w) - 1 <= Len(s)
  /\ \A k \in DOMAIN w : s[p + k - 1] = w[k]

StartsWithAtIgnoreCase(s, p, w) ==
  /\ p + Len(w) - 1 <= Len(s)
  /\ \A k \in DOMAIN w : Canonicalize(s[p + k - 1]) = Canonicalize(w[k])

Contains(s, w) == \E p \in DOMAIN s : StartsWithAt(s, p, w)
ContainsIgnoreCase(s, w) == \E p \in DOMAIN s : StartsWithAtIgnoreCase(s, p, w)

\* the rest of s from index p
From(s, p) == SubSeq(s, p, Len(s))

\* (.+) reaching the end of the string: '.' matches no line terminator
NoLineTerminator(s) == \A k \in DOMAIN s : s[k] \notin LineTerminators

\* --------------------------------------------------------- CHAPTER_PATTERNS
NoMatch == [ok |-> FALSE, m1 |-> <<>>, m2 |-> <<>>]
Matched(a, b) == [ok |-> TRUE, m1 |-> a, m2 |-> b]

\* the common tail \s*[.:：]?\s*(.+)?$ after a marker ending before index
\* q: every part is greedy and optional, so the first attempt matches unless
\* a line terminator stands in the way of (.+)?$
MarkerThenTitle(t, q) ==
  LET a == RunEnd(t, q, Whitespace)
      b == IF a <= Len(t) /\ t[a] \in {".", ":", "U+FF1A"} THEN a + 1 ELSE a
      c == RunEnd(t, b, Whitespace)
  IN IF q >= 1 /\ NoLineTerminator(From(t, c))
     THEN Matched(SubSeq(t, 1, q - 1), From(t, c))
     ELSE NoMatch

\* index after the marker KoJe \s* \d+ \s* unit at the start of t, 0 if none
KoreanMarkerEnd(t, unit) ==
  IF Len(t) >= 1 /\ t[1] = KoJe
  THEN LET a == RunEnd(t, 2, Whitespace)
           d == RunEnd(t, a, Digits)
           e == RunEnd(t, d, Whitespace)
       IN IF d > a /\ e <= Len(t) /\ t[e] = unit THEN e + 1 ELSE 0
  ELSE 0

\* /^(KoJe\s*\d+\s*unit)\s*[.:：]?\s*(.+)?$/
KoreanMarker(t, unit) ==
  IF KoreanMarkerEnd(t, unit) > 0 THEN MarkerThenTitle(t, KoreanMarkerEnd(t, unit))
  ELSE NoMatch

\* /^(\d+KoJang)\s*[.:：]?\s*(.+)?$/
NumberJang(t) ==
  LET d == RunEnd(t, 1, Digits)
  IN IF d > 1 /\ d <= Len(t) /\ t[d] = KoJang THEN MarkerThenTitle(t, d + 1)
     ELSE NoMatch

\* /^(word\s+\d+)\s*[.:：]?\s*(.+)?$/i
EnglishMarker(t, word) ==
  LET a == Len(word) + 1
      w == RunEnd(t, a, Whitespace)
      d == RunEnd(t, w, Digits)
  IN IF StartsWithAtIgnoreCase(t, 1, word) /\ w > a /\ d > w
     THEN MarkerThenTitle(t, d)
     ELSE NoMatch

\* the match of the first of the alternatives `hits` of words
FirstAlternative(t, words, hits) ==
  IF hits = {} THEN NoMatch
  ELSE LET k == CHOOSE j \in hits : \A m \in hits : j <= m
       IN Matched(SubSeq(t, 1, Len(words[k])), <<>>)

\* /^(w1|w2|...)/i : the first alternative the line starts with
KeywordPrefix(t, words) ==
  FirstAlternative(t, words,
                   { j \in DOMAIN words : StartsWithAtIgnoreCase(t, 1, words[j]) })

KoreanKeywords ==
  <<<<"U+D504", "U+B864", "U+B85C", "U+ADF8">>,
    <<"U+C5D0", "U+D544", "U+B85C", "U+ADF8">>,
    <<"U+C11C", "U+BB38">>,
    <<"U+BA38", "U+B9AC", "U+B9D0">>,
    <<"U+B9FA", "U+C74C", "U+B9D0">>,
    <<"U+B4E4", "U+C5B4", "U+AC00", "U+BA70">>,
    <<"U+B098", "U+AC00", "U+BA70">>>>

EnglishKeywords ==
  <<<<"P", "r", "o", "l", "o", "g", "u", "e">>,
    <<"E", "p", "i", "l", "o", "g", "u", "e">>,
    <<"I", "n", "t", "r", "o", "d", "u", "c", "t", "i", "o", "n">>,
    <<"C", "o", "n", "c", "l", "u", "s", "i", "o", "n">>,
    <<"P", "r", "e", "f", "a", "c", "e">>>>

ChapterWord == <<"C", "h", "a", "p", "t", "e", "r">>
PartWord == <<"P", "a", "r", "t">>
SectionWord == <<"S", "e", "c", "t", "i", "o", "n">>

RomanLetters ==
  {"I", "V", "X", "L", "C", "D", "M", "i", "v", "x", "l", "c", "d", "m"}

\* /^(cls+)\s*[.．]\s+(.+)$/ for a class of numeral characters
Numbered(t, cls) ==
  LET d == RunEnd(t, 1, cls)
      a == RunEnd(t, d, Whitespace)
      w == RunEnd(t, a + 1, Whitespace)
  IN IF /\ d > 1
        /\ a <= Len(t) /\ t[a] \in {".", "U+FF0E"}
        /\ w > a + 1
        /\ w <= Len(t) /\ NoLineTerminator(From(t, w))
     THEN Matched(SubSeq(t, 1, d - 1), From(t, w))
     ELSE NoMatch

\* /^#{1,3}\s+(.+)$/ : the one group is the title
ShortMarkdown(t) ==
  LET h == RunEnd(t, 1, {"#"}) - 1
      w == RunEnd(t, h + 1, Whitespace)
  IN IF h >= 1 /\ h <= 3 /\ w > h + 1 /\ w <= Len(t) /\ NoLineTerminator(From(t, w))
     THEN Matched(From(t, w), <<>>)
     ELSE NoMatch

\* the match of every pattern of the table on the trimmed line t, in the
\* order of the table
CHAPTER_PATTERNS(t) ==
  <<KoreanMarker(t, KoJang),
    KoreanMarker(t, KoPyeon),
    KoreanMarker(t, KoBu),
    KoreanMarker(t, KoJeol),
    NumberJang(t),
    KeywordPrefix(t, KoreanKeywords),
    EnglishMarker(t, ChapterWord),
    EnglishMarker(t, PartWord),
    EnglishMarker(t, SectionWord),
    KeywordPrefix(t, EnglishKeywords),
    Numbered(t, Digits),
    Numbered(t, RomanLetters),
    ShortMarkdown(t)>>

\* ---------------------------------------------------------- isChapterHeading
NotHeading == [isHeading |-> FALSE, title |-> <<>>, level |-> 0]
Heading(title, level) == [isHeading |-> TRUE, title |-> title, level |-> level]

\* trimmed.match(/^(#{1,6})\s+(.+)$/)
MarkdownHeading(t) ==
  LET h == RunEnd(t, 1, {"#"}) - 1
      w == RunEnd(t, h + 1, Whitespace)
  IN IF h >= 1 /\ h <= 6 /\ w > h + 1 /\ w <= Len(t) /\ NoLineTerminator(From(t, w))
     THEN Heading(From(t, w), h)
     ELSE NotHeading

\* variant: a marker of no keyword class counts as a chapter
TableLevel_defaultTwo(m1) ==
  IF Contains(m1, <<KoBu>>) \/ ContainsIgnoreCase(m1, PartWord) THEN 1
  ELSE IF Contains(m1, <<KoJeol>>) \/ ContainsIgnoreCase(m1, SectionWord) THEN 3
  ELSE 2

\* the level from the marker match[1]: /bu|Part/i, /pyeon|jang|Chapter/i,
\* /jeol|Section/i tested in this order, level 1 when none is found
TableLevel(m1) ==
  IF Contains(m1, <<KoBu>>) \/ ContainsIgnoreCase(m1, PartWord) THEN 1
  ELSE IF \/ Contains(m1, <<KoPyeon>>) \/ Contains(m1, <<KoJang>>)
          \/ ContainsIgnoreCase(m1, ChapterWord) THEN 2
  ELSE IF Contains(m1, <<KoJeol>>) \/ ContainsIgnoreCase(m1, SectionWord) THEN 3
  ELSE 1

\* match[2] ? `${match[1]} ${match[2]}`.trim() : match[1]
TableTitle(m) == IF m.m2 # <<>> THEN trim(m.m1 \o <<" ">> \o m.m2) ELSE m.m1

\* index of the first of the matches ms that succeeded, 0 if none
FirstMatch(ms) ==
  IF \E k \in DOMAIN ms : ms[k].ok
  THEN CHOOSE k \in DOMAIN ms : ms[k].ok /\ \A m \in 1..(k - 1) : ~ms[m].ok
  ELSE 0

\* index of the first pattern of the table matching t, 0 if none
FirstPattern(t) == FirstMatch(CHAPTER_PATTERNS(t))

\* for (const pattern of CHAPTER_PATTERNS): the heading of the match at index
\* k of ms, none for k = 0
PatternHeading(ms, k) ==
  IF k = 0 THEN NotHeading ELSE Heading(TableTitle(ms[k]), TableLevel(ms[k].m1))

FirstPatternHeading(ms) == PatternHeading(ms, FirstMatch(ms))

TableHeading(t) == FirstPatternHeading(CHAPTER_PATTERNS(t))

\* variant: '!' and '?' at the end also rule a heading out
EndPunctuation_sentenceEnds == {".", "U+3002", ",", "U+FF0C", ";", "U+FF1B", "!", "?"}

\* /[.。,，;；]$/
EndPunctuation == {".", "U+3002", ",", "U+FF0C", ";", "U+FF1B"}

\* the short all-caps heuristic on the trimmed line
CapsHeading(t) ==
  LET isAllCaps == t = toUpperCase(t) /\ \E k \in DOMAIN t : (t[k] \in UpperSet \/ t[k] \in HangulSet)
      noEndPunct == t[Len(t)] \notin EndPunctuation
      hasLetters == \E k \in DOMAIN t : (t[k] \in LowerSet \/ t[k] \in UpperSet \/ t[k] \in HangulSet)
  IN IF Len(t) <= 50 /\ Len(t) >= 2 /\ isAllCaps /\ noEndPunct /\ hasLetters
     THEN Heading(t, 2)
     ELSE NotHeading

\* the first of three findings that is a heading, the last one when none is
FirstHeading(first, second, third) ==
  IF first.isHeading THEN first ELSE IF second.isHeading THEN second ELSE third

\* variant: the pattern table is consulted after the heuristic
isChapterHeading_heuristicFirst(line) ==
  LET t == trim(line)
  IN IF t = <<>> THEN NotHeading
     ELSE FirstHeading(MarkdownHeading(t), CapsHeading(t), TableHeading(t))

\* the markdown check, then the pattern table, then the heuristic
isChapterHeading(line) ==
  LET t == trim(line)
  IN IF t = <<>> THEN NotHeading
     ELSE FirstHeading(MarkdownHeading(t), TableHeading(t), CapsHeading(t))

\* --------------------------------------------------------- preprocessContent
\* index of the first character of the run of cls that holds index k
RunStart(s, k, cls) ==
  CHOOSE a \in 1..k :
    /\ \A m \in a..k : s[m] \in cls
    /\ a = 1 \/ s[a - 1] \notin cls

\* index just after the longest run of characters outside cls from index p
RunEndNot(s, p, cls) ==
  CHOOSE q \in p..(Len(s) + 1) :
    /\ \A m \in p..(q - 1) : s[m] \notin cls
    /\ q = Len(s) + 1 \/ s[q] \in cls

\* content.split('\n')
split(s) ==
  LET breaks == { p \in DOMAIN s : s[p] = "\n" }
      nth(k) == CHOOSE p \in breaks : Cardinality({ q \in breaks : q <= p }) = k
  IN [k \in 1..(Cardinality(breaks) + 1) |->
        SubSeq(s, IF k = 1 THEN 1 ELSE nth(k - 1) + 1,
                  IF k = Cardinality(breaks) + 1 THEN Len(s) ELSE nth(k) - 1)]

\* lines.join('\n')
join(ls) == Flat([k \in DOMAIN ls |-> IF k = 1 THEN ls[k] ELSE <<"\n">> \o ls[k]])

\* Step 1: .replace(/\r\n/g, '\n').replace(/\r/g, '\n')
NormalizeLineEndings(s) ==
  Flat([k \in DOMAIN s |->
          IF s[k] = "\r"
          THEN (IF k < Len(s) /\ s[k + 1] = "\n" THEN <<>> ELSE <<"\n">>)
          ELSE <<s[k]>>])

\* .replace(/([^\n]) {2,}/g, '$1 '): a run of spaces after another character
\* of its line shrinks to one space; a run opening a line (or the text) gives
\* its first space to [^\n] and shrinks to two spaces when it has three or more
CollapseSpaces(s) ==
  Flat([k \in DOMAIN s |->
          IF s[k] # " " THEN <<s[k]>>
          ELSE LET a == RunStart(s, k, {" "})
                   r == RunEnd(s, a, {" "}) - a
                   kept == IF a = 1 \/ s[a - 1] = "\n"
                           THEN (IF r >= 3 THEN 2 ELSE r)
                           ELSE 1
               IN IF k - a < kept THEN <<" ">> ELSE <<>>])

\* .replace(/ +\n/g, '\n')
StripTrailingSpaces(s) ==
  Flat([k \in DOMAIN s |->
          IF s[k] = " " /\ RunEnd(s, k, {" "}) <= Len(s) /\ s[RunEnd(s, k, {" "})] = "\n"
          THEN <<>> ELSE <<s[k]>>])

\* .replace(/\n{least,}/g, cap newlines)
CapNewlines(s, least, cap) ==
  Flat([k \in DOMAIN s |->
          IF s[k] # "\n" THEN <<s[k]>>
          ELSE LET a == RunStart(s, k, {"\n"})
                   r == RunEnd(s, a, {"\n"}) - a
               IN IF r >= least /\ k - a >= cap THEN <<>> ELSE <<"\n">>])

\* Step 2
RemoveExtraSpaces(s) == CapNewlines(StripTrailingSpaces(CollapseSpaces(s)), 4, 3)

\* .replace(/([.!?])([A-Z가-힣])/g, '$1 $2')
SpaceAfterPunctuation(s) ==
  Flat([k \in DOMAIN s |->
          IF s[k] \in {".", "!", "?"} /\ k < Len(s)
             /\ (s[k + 1] \in UpperSet \/ s[k + 1] \in HangulSet)
          THEN <<s[k], " ">> ELSE <<s[k]>>])

\* .replace(/\s+([,.])/g, '$1')
NoSpaceBeforePunctuation(s) ==
  Flat([k \in DOMAIN s |->
          IF /\ s[k] \in Whitespace
             /\ RunEnd(s, k, Whitespace) <= Len(s)
             /\ s[RunEnd(s, k, Whitespace)] \in {",", "."}
          THEN <<>> ELSE <<s[k]>>])

\* the '.' at index k is the middle of a match of /([가-힣])\.([가-힣])/g:
\* matches do not overlap, so a match two places to the left has used up the
\* syllable before this '.'
RECURSIVE HangulStopAt(_, _)
HangulStopAt(s, k) ==
  /\ k > 1 /\ k < Len(s)
  /\ s[k] = "." /\ s[k - 1] \in HangulSet /\ s[k + 1] \in HangulSet
  /\ ~(k > 2 /\ HangulStopAt(s, k - 2))

\* .replace(/([가-힣])\.([가-힣])/g, '$1. $2')
SpaceAfterHangulStop(s) ==
  Flat([k \in DOMAIN s |-> IF HangulStopAt(s, k) THEN <<".", " ">> ELSE <<s[k]>>])

\* Step 3
FixPunctuation(s) ==
  SpaceAfterHangulStop(NoSpaceBeforePunctuation(SpaceAfterPunctuation(s)))

\* detectSentenceEnd
SentenceEndings == {".", "!", "?", "U+3002", "U+FF01", "U+FF1F"}

Abbreviations ==
  {<<"M", "r">>, <<"M", "r", "s">>, <<"M", "s">>, <<"D", "r">>,
   <<"P", "r", "o", "f">>, <<"I", "n", "c">>, <<"L", "t", "d">>,
   <<"e", "t", "c">>, <<"v", "s">>}

endsWith(s, w) == Len(w) <= Len(s) /\ SubSeq(s, Len(s) - Len(w) + 1, Len(s)) = w

\* detectSentenceEnd(text, pos), pos counted from 1
detectSentenceEnd(text, pos) ==
  /\ text[pos] \in SentenceEndings
  /\ pos = Len(text) \/ text[pos + 1] \in Whitespace
  /\ LET prevWord == SubSeq(text, Max(1, pos - 10), pos - 1)
     IN \A abbr \in Abbreviations : ~endsWith(prevWord, abbr)

\* the pieces of the long line t from index b on: a piece ends at the first
\* sentence end that makes it 40 characters or more
RECURSIVE BreakFrom(_, _)
BreakFrom(t, b) ==
  IF b > Len(t) THEN <<>>
  ELSE IF \E j \in (b + 39)..Len(t) : detectSentenceEnd(t, j)
  THEN LET j == CHOOSE e \in (b + 39)..Len(t) :
                  /\ detectSentenceEnd(t, e)
                  /\ \A m \in (b + 39)..(e - 1) : ~detectSentenceEnd(t, m)
       IN <<trim(SubSeq(t, b, j))>> \o BreakFrom(t, j + 1)
  ELSE IF trim(From(t, b)) # <<>> THEN <<trim(From(t, b))>> ELSE <<>>

\* Step 4, for one line
BreakLine(line) ==
  IF Len(trim(line)) <= 80 \/ trim(line) = <<>> THEN <<line>>
  ELSE IF isChapterHeading(trim(line)).isHeading THEN <<line>>
  ELSE BreakFrom(trim(line), 1)

\* Step 4
AutoLineBreak(s) ==
  LET ls == split(s)
  IN join(Flat([k \in DOMAIN ls |-> BreakLine(ls[k])]))

\* isChapterHeading(trimmed) for each line of ls
Classify(ls) == [k \in DOMAIN ls |-> isChapterHeading(trim(ls[k]))]

\* variant: only a line after a blank input line is looked at
RECURSIVE RewrittenAt_blankBeforeOnly(_, _, _)
RewrittenAt_blankBeforeOnly(ls, hs, k) ==
  /\ trim(ls[k]) # <<>>
  /\ k > 1 /\ trim(ls[k - 1]) = <<>>
  /\ hs[k].isHeading
  /\ trim(ls[k])[1] # "#"

\* Step 5: line k (from 1) is turned into a markdown heading, hs[k] being what
\* isChapterHeading says of it.  prevEmpty is true at the first line, after a
\* line that was turned into a heading, and after a blank line.
RECURSIVE RewrittenAt(_, _, _)
RewrittenAt(ls, hs, k) ==
  /\ trim(ls[k]) # <<>>
  /\ \/ k = 1
     \/ RewrittenAt(ls, hs, k - 1)
     \/ trim(ls[k - 1]) = <<>>
  /\ hs[k].isHeading
  /\ trim(ls[k])[1] # "#"

\* '#'.repeat(level) + ' ' + title
MarkdownLine(h) == [k \in 1..h.level |-> "#"] \o <<" ">> \o h.title

\* Step 5: what each line of ls puts into `formatted`
FormatWith(ls, hs) ==
  [k \in DOMAIN ls |->
     IF RewrittenAt(ls, hs, k)
     THEN <<(<<>>), MarkdownLine(hs[k]), (<<>>)>>
     ELSE <<ls[k]>>]

FormatLines(ls) == FormatWith(ls, Classify(ls))

\* one attempt of /\n*(#{1,6}\s+[^\n]+)\n*/ at index p: the newlines, the
\* '#' (a run of more than six has no whitespace after its sixth), the
\* whitespace (which may hold newlines), then the rest of a line; when the
\* whitespace runs to the end of the text it gives back up to its last
\* character that is no newline
HeadingMatchAt(s, p) ==
  LET a == RunEnd(s, p, {"\n"})
      h == RunEnd(s, a, {"#"})
      w == RunEnd(s, h, Whitespace)
      lasts == { q \in (h + 1)..Len(s) : s[q] # "\n" }
      body == IF w <= Len(s) THEN w
              ELSE IF lasts # {} THEN CHOOSE q \in lasts : \A m \in lasts : m <= q
              ELSE 0
      stop == IF body = 0 THEN 0 ELSE RunEndNot(s, body, {"\n"})
  IN IF h > a /\ h - a <= 6 /\ w > h /\ body > 0
     THEN [ok |-> TRUE, from |-> a, to |-> stop - 1, next |-> RunEnd(s, stop, {"\n"})]
     ELSE [ok |-> FALSE, from |-> 0, to |-> 0, next |-> 0]

\* .replace(/\n*(#{1,6}\s+[^\n]+)\n*/g, '\n\n$1\n\n') from index p on
RECURSIVE SpaceHeadingsFrom(_, _)
SpaceHeadingsFrom(s, p) ==
  IF \E q \in p..Len(s) : HeadingMatchAt(s, q).ok
  THEN LET q == CHOOSE c \in p..Len(s) :
                  /\ HeadingMatchAt(s, c).ok
                  /\ \A m \in p..(c - 1) : ~HeadingMatchAt(s, m).ok
           m == HeadingMatchAt(s, q)
       IN SubSeq(s, p, q - 1) \o <<"\n", "\n">> \o SubSeq(s, m.from, m.to)
            \o <<"\n", "\n">> \o SpaceHeadingsFrom(s, m.next)
  ELSE From(s, p)

\* .replace(/^\n+/, '')
StripLeadingNewlines(s) == From(s, RunEnd(s, 1, {"\n"}))

\* the clean-up that always runs
CleanUp(s) == CapNewlines(StripLeadingNewlines(SpaceHeadingsFrom(s, 1)), 3, 2)

\* the text entering Step 5
BeforeDetect(content, options) ==
  LET s1 == NormalizeLineEndings(content)
      s2 == IF options.removeExtraSpaces THEN RemoveExtraSpaces(s1) ELSE s1
      s3 == IF options.fixPunctuation THEN FixPunctuation(s2) ELSE s2
  IN IF options.autoLineBreak THEN AutoLineBreak(s3) ELSE s3

\* the lines Step 5 goes through in the text s4 left by Step 4; none when
\* the step is skipped
DetectInput(s4, options) == IF options.detectChapters THEN split(s4) ELSE <<>>

\* formatted.join('\n') when Step 5 ran, and the clean-up
Finish(s4, options, pushed) ==
  CleanUp(IF options.detectChapters THEN join(Flat(pushed)) ELSE s4)

\* Step 5 and the clean-up
AfterLineBreak(s4, options) ==
  Finish(s4, options, FormatLines(DetectInput(s4, options)))

preprocessContent(content, options) ==
  AfterLineBreak(BeforeDetect(content, options), options)

PreprocessOptions ==
  [autoLineBreak : BOOLEAN, detectChapters : BOOLEAN,
   removeExtraSpaces : BOOLEAN, fixPunctuation : BOOLEAN]

\* -------------------------------------------------------------------- Init
\* no text function is being called
NoOptions ==
  [autoLineBreak |-> FALSE, detectChapters |-> FALSE,
   removeExtraSpaces |-> FALSE, fixPunctuation |-> FALSE]

IdleDoc ==
  /\ docText = <<>>
  /\ docOptions = NoOptions
  /\ preprocessed = <<>>
  /\ reprocessed = <<>>
  /\ lineBroken = <<>>
  /\ detectInput = <<>>
  /\ formatted = <<>>

\* a line that holds no character and is no line of the document
EmptyLine == -1

\* the string '' as the sequence of its lines
EmptyString == <<EmptyLine>>

IdleEdit ==
  /\ allCorrected = EmptyString
  /\ correctedContent = EmptyString

IdleChapters ==
  /\ chaptersRaw = <<>>
  /\ exportChapters = <<>>
  /\ epubChapters = <<>>

IdleToc ==
  /\ tableOfContents = <<>>
  /\ contentHtml = <<>>

\* no issue found: { issues: [], score: 100, suggestions: [] }
NoIssues == [issues |-> <<>>, score |-> 100, suggestions |-> <<>>]

IdleRead ==
  /\ readability = NoIssues
  /\ appended = <<>>
  /\ appendedReadability = NoIssues

IdleBook == IdleEdit /\ bookText = <<>> /\ IdleChapters /\ IdleToc /\ IdleRead

IdleText ==
  /\ stage = "idle"
  /\ typed = 0
  /\ headingLine = <<>>
  /\ headingResult = NotHeading
  /\ IdleDoc
  /\ IdleBook

InitCall ==
  /\ pc = "start"
  /\ caller = "none"
  /\ i = 0
  /\ currentChunk = <<>>
  /\ currentLength = 0
  /\ chunkStartLine = 0
  /\ chunkIndex = 0
  /\ chunks = <<>>
  /\ ci = 0
  /\ results = <<>>
  /\ failures = 0
  /\ analysis = NoAnalysis
  /\ inFlight = 0
  /\ callLog = <<>>
  /\ IdleText

Init ==
  /\ lines \in Docs
  /\ numbering = 0
  /\ onProgress = FALSE
  /\ InitCall

\* ------------------------------------------------------- splitIntoChunks
\* a direct call of the exported function
CallSplit ==
  /\ pc = "start"
  /\ pc' = "loop"
  /\ caller' = "direct"
  /\ UNCHANGED <<textVars, lines, splitVars, numbering, analyzeVars>>

\* loop body, branch: adding the line would exceed the chunk size
CloseChunk ==
  /\ pc = "loop"
  /\ i < Len(lines)
  /\ LET line == lines[i + 1]
         splitIndex == FindSplitIndex(lines, currentChunk)
         keep == keepLines(currentChunk, splitIndex)
     IN /\ currentLength + lineLength(line) > CHUNK_SIZE
        /\ Len(currentChunk) > 0
        /\ chunks' = Append(chunks,
             ClosedChunk(chunks, chunkIndex, currentChunk, splitIndex, chunkStartLine))
        /\ chunkIndex' = chunkIndex + 1
        /\ currentChunk' = Append(keep, i)
        /\ currentLength' = JoinLength(lines, keep) + lineLength(line)
        /\ chunkStartLine' = NextStartLine(i, keep)
  /\ i' = i + 1
  /\ UNCHANGED <<textVars, lines, pc, caller, numbering, analyzeVars>>

\* loop body, else branch
PushLine ==
  /\ pc = "loop"
  /\ i < Len(lines)
  /\ LET line == lines[i + 1]
     IN /\ ~(currentLength + lineLength(line) > CHUNK_SIZE /\ Len(currentChunk) > 0)
        /\ currentChunk' = Append(currentChunk, i)
        /\ currentLength' = currentLength + lineLength(line)
  /\ i' = i + 1
  /\ UNCHANGED <<textVars, lines, pc, caller, chunkStartLine, chunkIndex, chunks,
                 numbering, analyzeVars>>

\* after the loop: the last chunk, the isLast mark, return
LastChunk ==
  /\ pc = "loop"
  /\ i = Len(lines)
  /\ chunks' = MarkLast(
       IF Len(currentChunk) > 0
       THEN Append(chunks,
              FinalChunk(chunks, chunkIndex, currentChunk, chunkStartLine, Len(lines)))
       ELSE chunks)
  /\ pc' = IF caller = "analyze" THEN "chunks" ELSE "done"
  /\ UNCHANGED <<textVars, lines, caller, i, currentChunk, currentLength, chunkStartLine,
                 chunkIndex, numbering, analyzeVars>>

\* --------------------------------------------------------- analyzeContent
\* long content: analyzeContent calls splitIntoChunks
AnalyzeChunked ==
  /\ pc = "start"
  /\ needsChunking(lines)
  /\ pc' = "loop"
  /\ caller' = "analyze"
  /\ UNCHANGED <<textVars, lines, splitVars, numbering, analyzeVars>>

\* entries of callLog
ProgressEvent(current, total) == [ev |-> "progress", chunk |-> current, arg |-> total]
CallEvent(c) == [ev |-> "call", chunk |-> c, arg |-> 0]
ReturnEvent(c, ok) == [ev |-> "return", chunk |-> c, arg |-> IF ok THEN 1 ELSE 0]
DelayEvent(c) == [ev |-> "delay", chunk |-> c, arg |-> 500]

\* short content: the one collaborator call, on the whole text, is issued and
\* awaited
AnalyzeSingle ==
  /\ pc = "start"
  /\ ~needsChunking(lines)
  /\ callLog' = Append(callLog, CallEvent(0))
  /\ inFlight' = inFlight + 1
  /\ pc' = "single"
  /\ caller' = "analyze"
  /\ UNCHANGED <<textVars, lines, splitVars, numbering, ci, results, failures, analysis,
                 onProgress>>

\* the awaited call settles: analyzeContent returns the collaborator's answer,
\* or the empty analysis of its catch when the call threw or the answer did
\* not parse
SingleReturns ==
  /\ pc = "single"
  /\ caller = "analyze"
  /\ \E ok \in BOOLEAN :
       /\ ~ok => failures < MaxFailures
       /\ analysis' = SingleAnalysis(lines, numbering, ok)
       /\ failures' = IF ok THEN failures ELSE failures + 1
       /\ callLog' = Append(callLog, ReturnEvent(0, ok))
  /\ inFlight' = inFlight - 1
  /\ pc' = "analyzed"
  /\ UNCHANGED <<textVars, lines, caller, splitVars, numbering, ci, results, onProgress>>

\* variant: the callback is told the 0-based loop index
ProgressArgs_zeroBased(c, n) == <<c, n>>

\* onProgress?.(i + 1, chunks.length)
ProgressArgs(c, n) == <<c + 1, n>>

\* variant: a delay follows every chunk
NeedsDelay_always(c, n) == c < n

\* if (i < chunks.length - 1)
NeedsDelay(c, n) == c < n - 1

\* top of the loop body: the callback, if supplied, is invoked, then the
\* collaborator call for chunks[i] is issued and awaited
StartChunk ==
  /\ pc = "chunks"
  /\ ci < Len(chunks)
  /\ callLog' = callLog
       \o (IF onProgress
           THEN <<ProgressEvent(ProgressArgs(ci, Len(chunks))[1],
                                ProgressArgs(ci, Len(chunks))[2])>>
           ELSE <<>>)
       \o <<CallEvent(ci)>>
  /\ inFlight' = inFlight + 1
  /\ pc' = "await"
  /\ UNCHANGED <<textVars, lines, caller, splitVars, numbering, ci, results, failures, analysis,
                 onProgress>>

\* variant: a failed call is not caught and ends analyzeContent
ChunkReturns_rethrow ==
  /\ pc = "await"
  /\ \E ok \in BOOLEAN :
       /\ ~ok => failures < MaxFailures
       /\ results' = IF ok THEN Append(results, analyzeChunk(lines, chunks[ci + 1], numbering, ok))
                     ELSE results
       /\ failures' = IF ok THEN failures ELSE failures + 1
       /\ callLog' = Append(callLog, ReturnEvent(ci, ok))
       /\ pc' = IF ~ok THEN "fault"
                ELSE IF NeedsDelay(ci, Len(chunks)) THEN "delay" ELSE "chunks"
       /\ ci' = IF ok /\ ~NeedsDelay(ci, Len(chunks)) THEN ci + 1 ELSE ci
  /\ inFlight' = inFlight - 1
  /\ UNCHANGED <<textVars, lines, caller, splitVars, numbering, analysis, onProgress>>

\* the awaited analyzeChunk settles: with the collaborator's answer, or with
\* the empty fragment when the call threw or its answer did not parse;
\* results.push(result); then either the delay starts or the loop goes on
ChunkReturns ==
  /\ pc = "await"
  /\ \E ok \in BOOLEAN :
       /\ ~ok => failures < MaxFailures
       /\ results' = Append(results, analyzeChunk(lines, chunks[ci + 1], numbering, ok))
       /\ failures' = IF ok THEN failures ELSE failures + 1
       /\ callLog' = Append(callLog, ReturnEvent(ci, ok))
  /\ inFlight' = inFlight - 1
  /\ pc' = IF NeedsDelay(ci, Len(chunks)) THEN "delay" ELSE "chunks"
  /\ ci' = IF NeedsDelay(ci, Len(chunks)) THEN ci ELSE ci + 1
  /\ UNCHANGED <<textVars, lines, caller, splitVars, numbering, analysis, onProgress>>

\* the 500 ms timer fires; i++
DelayElapsed ==
  /\ pc = "delay"
  /\ callLog' = Append(callLog, DelayEvent(ci))
  /\ ci' = ci + 1
  /\ pc' = "chunks"
  /\ UNCHANGED <<textVars, lines, caller, splitVars, numbering, results, failures, analysis,
                 onProgress, inFlight>>

\* return mergeChunkResults(results, totalWordCount)
MergeResults ==
  /\ pc = "chunks"
  /\ ci = Len(chunks)
  /\ analysis' = mergeChunkResults(results)
  /\ pc' = "analyzed"
  /\ UNCHANGED <<textVars, lines, caller, splitVars, numbering, ci, results, failures,
                 onProgress, inFlight, callLog>>

\* splitIntoChunks called directly, on the documents of Docs
Next == CallSplit \/ CloseChunk \/ PushLine \/ LastChunk

Spec == Init /\ [][Next]_vars

\* splitIntoChunks alone, on the 20,000-character documents
InitExample ==
  /\ lines \in ExampleDocs
  /\ numbering = 0
  /\ onProgress = FALSE
  /\ InitCall

SpecExample == InitExample /\ [][Next]_vars

\* analyzeContent, with the splitIntoChunks call it makes for long content
InitAnalyze ==
  /\ lines \in AnalyzeDocs
  /\ numbering \in {0, 1}
  /\ onProgress \in BOOLEAN
  /\ InitCall

NextAnalyze ==
  \/ AnalyzeSingle \/ SingleReturns \/ AnalyzeChunked
  \/ CloseChunk \/ PushLine \/ LastChunk
  \/ StartChunk \/ ChunkReturns \/ DelayElapsed \/ MergeResults

SpecAnalyze == InitAnalyze /\ [][NextAnalyze]_vars

\* mergeChunkResults on its own, on every sequence of up to MaxFragments
\* fragments of FragmentShapes
\* the four values of the ContentType type
ContentTypes == {"fiction", "non-fiction", "technical", "educational"}

\* positions (line numbers) an entry of a fragment can carry
MergePositions == 0..2

\* what one fragment carries: up to two entries at any positions with the
\* default classification, or no entry with any classification (the sort reads
\* only the entries, the vote only the classifications)
FragmentShapes ==
  { <<ps, "non-fiction">> : ps \in UNION { [1..m -> MergePositions] : m \in 0..2 } }
    \cup { <<(<<>>), ct>> : ct \in ContentTypes }

\* the fragment number f with the entry positions and classification of
\* shape: its k-th entry is titled 10 * f + k, its k-th image point has the
\* same section and the mirrored line number
MakeFragment(f, shape) ==
  [tableOfContents |->
     [k \in DOMAIN shape[1] |-> [title |-> 10 * f + k, position |-> shape[1][k]]],
   imagePoints |->
     [k \in DOMAIN shape[1] |-> [section |-> 10 * f + k, lineNumber |-> 2 - shape[1][k]]],
   contentType |-> shape[2]]

\* the caller's list of fragments starts empty
InitMerge ==
  /\ lines = <<>>
  /\ numbering = 0
  /\ pc = "merge"
  /\ caller = "none"
  /\ i = 0
  /\ currentChunk = <<>>
  /\ currentLength = 0
  /\ chunkStartLine = 0
  /\ chunkIndex = 0
  /\ chunks = <<>>
  /\ ci = 0
  /\ results = <<>>
  /\ failures = 0
  /\ analysis = NoAnalysis
  /\ onProgress = FALSE
  /\ inFlight = 0
  /\ callLog = <<>>
  /\ IdleText

\* results.push(result), for any fragment of FragmentShapes
PushFragment ==
  /\ pc = "merge"
  /\ Len(results) < MaxFragments
  /\ \E shape \in FragmentShapes :
       results' = Append(results, MakeFragment(Len(results) + 1, shape))
  /\ UNCHANGED <<textVars, lines, pc, caller, splitVars, numbering, ci, failures, analysis,
                 onProgress, inFlight, callLog>>

\* mergeChunkResults(results, totalWordCount)
CallMerge ==
  /\ pc = "merge"
  /\ analysis' = mergeChunkResults(results)
  /\ pc' = "merged"
  /\ UNCHANGED <<textVars, lines, caller, splitVars, numbering, ci, results, failures,
                 onProgress, inFlight, callLog>>

NextMerge == PushFragment \/ CallMerge

SpecMerge == InitMerge /\ [][NextMerge]_vars


\* isChapterHeading on its own.  The lines it is given: an opening, a
\* marker, a separator, then up to MaxTailTokens further tokens.
LineOpenings == {<<>>, <<"#", " ">>, <<"#", "#", "#", "#", "#", "#", "#", " ">>}

LongCapsWord == [k \in 1..48 |-> "X"]

LineMarkers ==
  {<<>>, <<"C", "h", "a", "p", "t", "e", "r", " ", "1">>, <<"P", "A", "R", "T", " ", "1">>,
   <<"S", "e", "c", "t", "i", "o", "n", " ", "1", "2">>, <<"P", "r", "o", "l", "o", "g", "u", "e">>,
   <<"U+C81C", "1", "U+C7A5">>, <<"U+C81C", " ", "1", " ", "U+BD80">>, <<"U+C81C", "1", "U+D3B8">>,
   <<"U+C81C", "1", "U+C808">>, <<"1", "U+C7A5">>,
   <<"U+C11C", "U+BB38">>, <<"1">>, <<"I", "V">>, <<"C", "H", "A", "P", "T", "E", "R">>, <<"o", "n", "e">>,
   <<"U+AC00", "U+B098">>, LongCapsWord,
   <<"C", "h", "a", "p", "t", "e", "r", "U+00A0", "1">>, <<"U+00C9", "U+00C9">>,
   <<"S", "T", "R", "A", "U+00DF", "E">>, <<"U+FF21", "B">>,
   <<"U+D81B", "U+DEBB", "U+AC00">>}

LineSeparators == {<<>>, <<" ">>, <<".", " ">>}

TailTokens == {<<" ">>, <<".">>, <<"!">>, <<"O", "N", "E">>, <<"P", "a", "r", "t", " ", "2">>}

\* no call is running in the chunker and the analysis
IdleCall ==
  /\ lines = <<>>
  /\ numbering = 0
  /\ pc = "idle"
  /\ caller = "none"
  /\ i = 0
  /\ currentChunk = <<>>
  /\ currentLength = 0
  /\ chunkStartLine = 0
  /\ chunkIndex = 0
  /\ chunks = <<>>
  /\ ci = 0
  /\ results = <<>>
  /\ failures = 0
  /\ analysis = NoAnalysis
  /\ onProgress = FALSE
  /\ inFlight = 0
  /\ callLog = <<>>

InitHeading ==
  /\ IdleCall
  /\ stage = "line"
  /\ typed = 0
  /\ headingLine \in { o \o m \o p : o \in LineOpenings, m \in LineMarkers,
                                      p \in LineSeparators }
  /\ headingResult = NotHeading
  /\ IdleDoc
  /\ IdleBook

\* the caller's line grows by one token
TypeToken ==
  /\ stage = "line"
  /\ typed < MaxTailTokens
  /\ \E tok \in TailTokens : headingLine' = headingLine \o tok
  /\ typed' = typed + 1
  /\ UNCHANGED <<lines, pc, caller, splitVars, numbering, analyzeVars, stage,
                 headingResult, docVars, bookVars>>

\* isChapterHeading(line)
ClassifyLine ==
  /\ stage = "line"
  /\ headingResult' = isChapterHeading(headingLine)
  /\ stage' = "classified"
  /\ UNCHANGED <<lines, pc, caller, splitVars, numbering, analyzeVars, typed,
                 headingLine, docVars, bookVars>>

NextHeading == TypeToken \/ ClassifyLine

SpecHeading == InitHeading /\ [][NextHeading]_vars

\* --------------------------------------------- preprocessContent on documents
\* a sentence of 44 characters and the space after it: two of them make a
\* line of more than 80 characters
LongSentence == [k \in 1..43 |-> "x"] \o <<".", " ">>

\* what the caller's document is made of
DocTokens ==
  {<<"\n">>, <<"\r">>, <<" ">>, <<"#", " ", "T">>, <<"A", "B">>, <<".">>, LongSentence}

InitPreprocess ==
  /\ IdleCall
  /\ stage = "document"
  /\ typed = 0
  /\ headingLine = <<>>
  /\ headingResult = NotHeading
  /\ IdleDoc
  /\ IdleBook

\* the caller's document grows by one token
TypeText ==
  /\ stage = "document"
  /\ typed < MaxDocTokens
  /\ \E tok \in DocTokens : docText' = docText \o tok
  /\ typed' = typed + 1
  /\ UNCHANGED <<lines, pc, caller, splitVars, numbering, analyzeVars, stage,
                 headingLine, headingResult, docOptions, preprocessed, reprocessed,
                 lineBroken, detectInput, formatted, bookVars>>

\* preprocessContent(content, options), written out so that the text after
\* Step 4, the lines entering Step 5 and what it pushed for each of them are
\* kept: preprocessed' = preprocessContent(docText, docOptions')
Preprocess ==
  /\ stage = "document"
  /\ \E o \in PreprocessOptions :
       /\ docOptions' = o
       /\ lineBroken' = BeforeDetect(docText, o)
  /\ detectInput' = DetectInput(lineBroken', docOptions')
  /\ formatted' = FormatLines(detectInput')
  /\ preprocessed' = Finish(lineBroken', docOptions', formatted')
  /\ stage' = "preprocessed"
  /\ UNCHANGED <<lines, pc, caller, splitVars, numbering, analyzeVars, typed,
                 headingLine, headingResult, docText, reprocessed, bookVars>>

\* preprocessContent(preprocessContent(content, options), options)
PreprocessAgain ==
  /\ stage = "preprocessed"
  /\ lineBroken' = BeforeDetect(preprocessed, docOptions)
  /\ detectInput' = DetectInput(lineBroken', docOptions)
  /\ formatted' = FormatLines(detectInput')
  /\ reprocessed' = Finish(lineBroken', docOptions, formatted')
  /\ stage' = "reprocessed"
  /\ UNCHANGED <<lines, pc, caller, splitVars, numbering, analyzeVars, typed,
                 headingLine, headingResult, docText, docOptions, preprocessed,
                 bookVars>>

NextPreprocess == TypeText \/ Preprocess \/ PreprocessAgain

SpecPreprocess == InitPreprocess /\ [][NextPreprocess]_vars

\* ------------------------------------ proofreadContent, formatContentWithAI
\* A text is the sequence of its lines: lines of the document by their index,
\* and EmptyLine for an empty line that is not one of the document.
\* const maxChunkSize = 6000
maxChunkSize == 6000

\* if (content.length > 8000)
FormatThreshold == 8000

\* the line e of a text trims to ''
BlankEntry(doc, e) == e = EmptyLine \/ doc[e + 1].kind = "blank"

\* String.prototype.trim on a text, as far as whole lines go: the blank lines
\* at its start and end disappear (the white space inside the first and the
\* last line that stay is not told apart by the line alphabet)
trimLines(doc, text) ==
  LET keep == { k \in DOMAIN text : ~BlankEntry(doc, text[k]) }
  IN IF keep = {} THEN EmptyString
     ELSE SubSeq(text, CHOOSE a \in keep : \A k \in keep : a <= k,
                       CHOOSE b \in keep : \A k \in keep : k <= b)

\* a + b for a text a that ends with an empty line: the first line of b
\* continues that line
Concat(a, b) == SubSeq(a, 1, Len(a) - 1) \o b

\* text + '\n\n'
WithBreaks(text) == text \o <<EmptyLine, EmptyLine>>

\* The collaborator is outside the repository; here it hands every text back
\* unchanged when it answers.
\* proofreadChunk(content).correctedContent: parsed.correctedContent || content
\* when the call answers, content from the catch
proofreadChunk(text) == text

\* formatChunkWithAI(content): result.response.text().trim() when the call
\* answers, content (untrimmed) from the catch
formatChunkWithAI(doc, text, ok) == IF ok THEN trimLines(doc, text) ELSE text

\* chunk.content of chunks[c]
ChunkText(cs, c) == cs[c].content

InitEdit ==
  /\ lines \in Docs
  /\ numbering = 0
  /\ onProgress = FALSE
  /\ InitCall

\* proofreadContent, content at or under maxChunkSize: the one call of
\* proofreadChunk is issued
ProofreadSingle ==
  /\ pc = "start"
  /\ ~(DocLength(lines) > maxChunkSize)
  /\ callLog' = Append(callLog, CallEvent(0))
  /\ inFlight' = inFlight + 1
  /\ caller' = "proofread"
  /\ pc' = "single"
  /\ UNCHANGED <<textVars, lines, splitVars, numbering, ci, results, failures, analysis,
                 onProgress>>

\* proofreadContent, long content: splitIntoChunks is called
ProofreadChunked ==
  /\ pc = "start"
  /\ DocLength(lines) > maxChunkSize
  /\ caller' = "proofread"
  /\ pc' = "loop"
  /\ UNCHANGED <<textVars, lines, splitVars, numbering, analyzeVars>>

\* formatContentWithAI, content at or under 8000 characters: the one call of
\* formatChunkWithAI is issued
FormatSingle ==
  /\ pc = "start"
  /\ ~(DocLength(lines) > FormatThreshold)
  /\ callLog' = Append(callLog, CallEvent(0))
  /\ inFlight' = inFlight + 1
  /\ caller' = "format"
  /\ pc' = "single"
  /\ UNCHANGED <<textVars, lines, splitVars, numbering, ci, results, failures, analysis,
                 onProgress>>

\* formatContentWithAI, long content: splitIntoChunks is called
FormatChunked ==
  /\ pc = "start"
  /\ DocLength(lines) > FormatThreshold
  /\ caller' = "format"
  /\ pc' = "loop"
  /\ UNCHANGED <<textVars, lines, splitVars, numbering, analyzeVars>>

\* what the awaited call of the caller gives for a text
EditedText(who, text, ok) ==
  IF who = "proofread" THEN proofreadChunk(text) ELSE formatChunkWithAI(lines, text, ok)

\* the one call settles, by an answer or in the catch, and its result is
\* returned
EditSingleReturns ==
  /\ pc = "single"
  /\ caller \in {"proofread", "format"}
  /\ \E ok \in BOOLEAN :
       /\ ~ok => failures < MaxFailures
       /\ correctedContent' = EditedText(caller, Range0(Len(lines)), ok)
       /\ failures' = IF ok THEN failures ELSE failures + 1
       /\ callLog' = Append(callLog, ReturnEvent(0, ok))
  /\ inFlight' = inFlight - 1
  /\ pc' = "edited"
  /\ UNCHANGED <<lines, caller, splitVars, numbering, ci, results, analysis, onProgress,
                 stage, typed, headingLine, headingResult, docVars, allCorrected, pageVars>>

\* top of a turn of the loop over the chunks: the call for the chunk is issued
\* and awaited
EditChunk ==
  /\ pc = "done"
  /\ caller \in {"proofread", "format"}
  /\ ci < Len(chunks)
  /\ callLog' = Append(callLog, CallEvent(ci))
  /\ inFlight' = inFlight + 1
  /\ pc' = "editing"
  /\ UNCHANGED <<textVars, lines, caller, splitVars, numbering, ci, results, failures,
                 analysis, onProgress>>

\* the awaited call settles, by an answer or in the catch; then
\* allCorrected += result + '\n\n' and the loop goes on
EditChunkReturns ==
  /\ pc = "editing"
  /\ \E ok \in BOOLEAN :
       /\ ~ok => failures < MaxFailures
       /\ allCorrected' =
            Concat(allCorrected, WithBreaks(EditedText(caller, ChunkText(chunks, ci + 1), ok)))
       /\ failures' = IF ok THEN failures ELSE failures + 1
       /\ callLog' = Append(callLog, ReturnEvent(ci, ok))
  /\ inFlight' = inFlight - 1
  /\ ci' = ci + 1
  /\ pc' = "done"
  /\ UNCHANGED <<lines, caller, splitVars, numbering, results, analysis, onProgress,
                 stage, typed, headingLine, headingResult, docVars, correctedContent,
                 pageVars>>

\* after the loop: return allCorrected.trim()
ReturnEdited ==
  /\ pc = "done"
  /\ caller \in {"proofread", "format"}
  /\ ci = Len(chunks)
  /\ correctedContent' = trimLines(lines, allCorrected)
  /\ pc' = "edited"
  /\ UNCHANGED <<lines, caller, splitVars, numbering, analyzeVars, stage, typed,
                 headingLine, headingResult, docVars, allCorrected, pageVars>>

NextEdit ==
  \/ ProofreadSingle \/ ProofreadChunked \/ FormatSingle \/ FormatChunked
  \/ EditSingleReturns
  \/ CloseChunk \/ PushLine \/ LastChunk \/ EditChunk \/ EditChunkReturns \/ ReturnEdited

SpecEdit == InitEdit /\ [][NextEdit]_vars

\* ------------------------------ splitByChapters, splitIntoChapters, generateEPUB
\* the titles the code gives to chapters it makes up
Preface == <<"U+C11C", "U+BB38">>
MainText == <<"U+BCF8", "U+BB38">>
Introduction == <<"I", "n", "t", "r", "o", "d", "u", "c", "t", "i", "o", "n">>
ContentTitle == <<"C", "o", "n", "t", "e", "n", "t">>

\* title.replace(/^#+\s*/, '')
StripHashes(t) ==
  IF t # <<>> /\ t[1] = "#"
  THEN From(t, RunEnd(t, RunEnd(t, 1, {"#"}), Whitespace))
  ELSE t

\* introContent.some(l => l.trim().length > 0)
hasContent(ls) == \E k \in DOMAIN ls : trim(ls[k]) # <<>>

\* splitByChapters before its loop: no chapter, no currentChapter (a sequence
\* of at most one chapter), no introContent
NoChapters == [chapters |-> <<>>, currentChapter |-> <<>>, introContent |-> <<>>]

\* chapters.push({ title, content: introContent, level: 1, startLine: 0 })
\* when some line of introContent is not blank
WithIntro(st, title) ==
  IF st.introContent # <<>> /\ hasContent(st.introContent)
  THEN Append(st.chapters, [title |-> title, content |-> st.introContent,
                            level |-> 1, startLine |-> 0])
  ELSE st.chapters

\* one round of the loop of splitByChapters: line i (from 0), h being what
\* isChapterHeading(line.trim()) returned
ChapterStep(line, h, idx, st) ==
  IF h.isHeading /\ h.level <= 2
  THEN [chapters |-> IF st.currentChapter # <<>>
                     THEN st.chapters \o st.currentChapter
                     ELSE WithIntro(st, Preface),
        currentChapter |-> <<[title |-> StripHashes(h.title), content |-> <<>>,
                              level |-> h.level, startLine |-> idx]>>,
        introContent |-> st.introContent]
  ELSE IF st.currentChapter # <<>>
  THEN [st EXCEPT !.currentChapter[1].content = Append(@, line)]
  ELSE [st EXCEPT !.introContent = Append(@, line)]

\* the loop from line k (from 1) on
RECURSIVE ChapterLoop(_, _, _, _)
ChapterLoop(ls, hs, k, st) ==
  IF k > Len(ls) THEN st
  ELSE ChapterLoop(ls, hs, k + 1, ChapterStep(ls[k], hs[k], k - 1, st))

\* content: ch.content.join('\n').trim()
JoinContent(cs) == [k \in DOMAIN cs |-> [cs[k] EXCEPT !.content = trim(join(@))]]

splitByChapters(content) ==
  LET ls == split(content)
      st == ChapterLoop(ls, Classify(ls), 1, NoChapters)
  IN JoinContent(IF st.currentChapter # <<>>
                 THEN st.chapters \o st.currentChapter
                 ELSE WithIntro(st, MainText))

\* line.match(/^(#{1,most})\s+(.+)$/): one to `most` '#' (one '#' more is no
\* white space), white space, and at least one more character up to the end
\* of the line, none of them a line terminator; the title is
\* headingMatch[2].trim()
HeadingMatch(line, most) ==
  LET h == RunEnd(line, 1, {"#"}) - 1
      w == RunEnd(line, h + 1, Whitespace)
      starts == { q \in (h + 2)..Len(line) : q <= w /\ NoLineTerminator(From(line, q)) }
  IN IF h \in 1..most /\ starts # {}
     THEN Heading(trim(From(line, h + 2)), h)
     ELSE NotHeading

\* line.match(/^(#{1,2})\s+(.+)$/)
ExportHeading(line) == HeadingMatch(line, 2)

\* chapters.push({ title, content: currentChapter.content.join('\n').trim(), level })
Closed(current) ==
  [k \in DOMAIN current |->
     [title |-> current[k].title, content |-> trim(join(current[k].content)),
      level |-> current[k].level]]

\* one round of the loop of splitIntoChapters
ExportStep(line, st) ==
  LET m == ExportHeading(line)
  IN IF m.isHeading
     THEN [chapters |-> st.chapters \o Closed(st.currentChapter),
           currentChapter |-> <<[title |-> m.title, content |-> <<>>, level |-> m.level]>>]
     ELSE IF st.currentChapter # <<>>
     THEN [st EXCEPT !.currentChapter[1].content = Append(@, line)]
     ELSE [st EXCEPT !.currentChapter =
                        <<[title |-> Introduction, content |-> <<line>>, level |-> 1]>>]

RECURSIVE ExportLoop(_, _, _)
ExportLoop(ls, k, st) ==
  IF k > Len(ls) THEN st ELSE ExportLoop(ls, k + 1, ExportStep(ls[k], st))

\* the loop, the last push and return chapters.filter((ch) => ch.content.length > 0)
splitIntoChapters(markdown) ==
  LET st == ExportLoop(split(markdown), 1, [chapters |-> <<>>, currentChapter |-> <<>>])
  IN SelectSeq(st.chapters \o Closed(st.currentChapter), LAMBDA ch : ch.content # <<>>)

\* variant: generateEPUB goes on with whatever the split gave
WithFallback_none(found, markdown, title) == found

\* generateEPUB: if (!chapters || chapters.length === 0) chapters = [{ title:
\* options.metadata.title || 'Content', content: markdown, level: 1 }]
WithFallback(found, markdown, title) ==
  IF found = <<>>
  THEN <<[title |-> IF title # <<>> THEN title ELSE ContentTitle,
          content |-> markdown, level |-> 1]>>
  ELSE found

\* options.metadata.title of the export: none, or one
MetadataTitles == {<<>>, <<"T">>}

\* ------------------- generateHeadingId, extractTableOfContents, markdownToHtml
LowerRuns ==
  <<
    <<192, 214, 1, 32>>, <<216, 222, 1, 32>>, <<256, 302, 2, 1>>, <<306, 310, 2, 1>>,
    <<313, 327, 2, 1>>, <<330, 374, 2, 1>>, <<376, 376, 1, -121>>, <<377, 381, 2, 1>>,
    <<385, 385, 1, 210>>, <<386, 388, 2, 1>>, <<390, 390, 1, 206>>, <<391, 391, 1, 1>>,
    <<393, 394, 1, 205>>, <<395, 395, 1, 1>>, <<398, 398, 1, 79>>, <<399, 399, 1, 202>>,
    <<400, 400, 1, 203>>, <<401, 401, 1, 1>>, <<403, 403, 1, 205>>, <<404, 404, 1,
    207>>, <<406, 406, 1, 211>>, <<407, 407, 1, 209>>, <<408, 408, 1, 1>>, <<412, 412,
    1, 211>>, <<413, 413, 1, 213>>, <<415, 415, 1, 214>>, <<416, 420, 2, 1>>, <<422,
    422, 1, 218>>, <<423, 423, 1, 1>>, <<425, 425, 1, 218>>, <<428, 428, 1, 1>>, <<430,
    430, 1, 218>>, <<431, 431, 1, 1>>, <<433, 434, 1, 217>>, <<435, 437, 2, 1>>, <<439,
    439, 1, 219>>, <<440, 440, 1, 1>>, <<444, 444, 1, 1>>, <<452, 452, 1, 2>>, <<453,
    453, 1, 1>>, <<455, 455, 1, 2>>, <<456, 456, 1, 1>>, <<458, 458, 1, 2>>, <<459, 475,
    2, 1>>, <<478, 494, 2, 1>>, <<497, 497, 1, 2>>, <<498, 500, 2, 1>>, <<502, 502, 1,
    -97>>, <<503, 503, 1, -56>>, <<504, 542, 2, 1>>, <<544, 544, 1, -130>>, <<546, 562,
    2, 1>>, <<570, 570, 1, 10795>>, <<571, 571, 1, 1>>, <<573, 573, 1, -163>>, <<574,
    574, 1, 10792>>, <<577, 577, 1, 1>>, <<579, 579, 1, -195>>, <<580, 580, 1, 69>>,
    <<581, 581, 1, 71>>, <<582, 590, 2, 1>>, <<880, 882, 2, 1>>, <<886, 886, 1, 1>>,
    <<895, 895, 1, 116>>, <<902, 902, 1, 38>>, <<904, 906, 1, 37>>, <<908, 908, 1, 64>>,
    <<910, 911, 1, 63>>, <<913, 929, 1, 32>>, <<931, 939, 1, 32>>, <<975, 975, 1, 8>>,
    <<984, 1006, 2, 1>>, <<1012, 1012, 1, -60>>, <<1015, 1015, 1, 1>>, <<1017, 1017, 1,
    -7>>, <<1018, 1018, 1, 1>>, <<1021, 1023, 1, -130>>, <<1024, 1039, 1, 80>>, <<1040,
    1071, 1, 32>>, <<1120, 1152, 2, 1>>, <<1162, 1214, 2, 1>>, <<1216, 1216, 1, 15>>,
    <<1217, 1229, 2, 1>>, <<1232, 1326, 2, 1>>, <<1329, 1366, 1, 48>>, <<4256, 4293, 1,
    7264>>, <<4295, 4295, 1, 7264>>, <<4301, 4301, 1, 7264>>, <<5024, 5103, 1, 38864>>,
    <<5104, 5109, 1, 8>>, <<7305, 7305, 1, 1>>, <<7312, 7354, 1, -3008>>, <<7357, 7359,
    1, -3008>>, <<7680, 7828, 2, 1>>, <<7838, 7838, 1, -7615>>, <<7840, 7934, 2, 1>>,
    <<7944, 7951, 1, -8>>, <<7960, 7965, 1, -8>>, <<7976, 7983, 1, -8>>, <<7992, 7999,
    1, -8>>, <<8008, 8013, 1, -8>>, <<8025, 8031, 2, -8>>, <<8040, 8047, 1, -8>>,
    <<8072, 8079, 1, -8>>, <<8088, 8095, 1, -8>>, <<8104, 8111, 1, -8>>, <<8120, 8121,
    1, -8>>, <<8122, 8123, 1, -74>>, <<8124, 8124, 1, -9>>, <<8136, 8139, 1, -86>>,
    <<8140, 8140, 1, -9>>, <<8152, 8153, 1, -8>>, <<8154, 8155, 1, -100>>, <<8168, 8169,
    1, -8>>, <<8170, 8171, 1, -112>>, <<8172, 8172, 1, -7>>, <<8184, 8185, 1, -128>>,
    <<8186, 8187, 1, -126>>, <<8188, 8188, 1, -9>>, <<8486, 8486, 1, -7517>>, <<8491,
    8491, 1, -8262>>, <<8498, 8498, 1, 28>>, <<8544, 8559, 1, 16>>, <<8579, 8579, 1,
    1>>, <<9398, 9423, 1, 26>>, <<11264, 11311, 1, 48>>, <<11360, 11360, 1, 1>>,
    <<11362, 11362, 1, -10743>>, <<11363, 11363, 1, -3814>>, <<11364, 11364, 1,
    -10727>>, <<11367, 11371, 2, 1>>, <<11373, 11373, 1, -10780>>, <<11374, 11374, 1,
    -10749>>, <<11375, 11375, 1, -10783>>, <<11376, 11376, 1, -10782>>, <<11378, 11378,
    1, 1>>, <<11381, 11381, 1, 1>>, <<11390, 11391, 1, -10815>>, <<11392, 11490, 2, 1>>,
    <<11499, 11501, 2, 1>>, <<11506, 11506, 1, 1>>, <<42560, 42604, 2, 1>>, <<42624,
    42650, 2, 1>>, <<42786, 42798, 2, 1>>, <<42802, 42862, 2, 1>>, <<42873, 42875, 2,
    1>>, <<42877, 42877, 1, -35332>>, <<42878, 42886, 2, 1>>, <<42891, 42891, 1, 1>>,
    <<42893, 42893, 1, -42280>>, <<42896, 42898, 2, 1>>, <<42902, 42920, 2, 1>>,
    <<42922, 42922, 1, -42308>>, <<42923, 42923, 1, -42319>>, <<42924, 42924, 1,
    -42315>>, <<42925, 42925, 1, -42305>>, <<42926, 42926, 1, -42308>>, <<42928, 42928,
    1, -42258>>, <<42929, 42929, 1, -42282>>, <<42930, 42930, 1, -42261>>, <<42931,
    42931, 1, 928>>, <<42932, 42946, 2, 1>>, <<42948, 42948, 1, -48>>, <<42949, 42949,
    1, -42307>>, <<42950, 42950, 1, -35384>>, <<42951, 42953, 2, 1>>, <<42955, 42955, 1,
    -42343>>, <<42956, 42970, 2, 1>>, <<42972, 42972, 1, -42561>>, <<42997, 42997, 1,
    1>>, <<65313, 65338, 1, 32>>
  >>

\* the code units that become an ASCII letter or more than one code unit
LowerSpecial ==
  {
    <<"U+0130", <<"i", "U+0307">>>>, <<"U+212A", <<"k">>>>
  }

LowerPairRuns ==
  <<
    <<55297, 56320, 40, 55297, 56360>>, <<55297, 56496, 36, 55297, 56536>>, <<55297,
    56688, 11, 55297, 56727>>, <<55297, 56700, 15, 55297, 56739>>, <<55297, 56716, 7,
    55297, 56755>>, <<55297, 56724, 2, 55297, 56763>>, <<55299, 56448, 51, 55299,
    56512>>, <<55299, 56656, 22, 55299, 56688>>, <<55302, 56480, 32, 55302, 56512>>,
    <<55323, 56896, 32, 55323, 56928>>, <<55323, 56992, 25, 55323, 57019>>, <<55354,
    56576, 34, 55354, 56610>>
  >>

LowerTable ==
  TableOf({ <<UpperLetters[k], <<LowerLetters[k]>>>> : k \in DOMAIN UpperLetters }
          \cup LowerSpecial
          \cup UNION { CaseRun(LowerRuns[k]) : k \in DOMAIN LowerRuns })

LowerPairTable == TableOf(UNION { CasePairRun(LowerPairRuns[k]) : k \in DOMAIN LowerPairRuns })

\* toLowerCase of one code unit that is not half of a surrogate pair and is
\* not a capital sigma at the end of a word
ToLower(c) == Converted(LowerTable, c)

\* The Final_Sigma condition of SpecialCasing.txt needs two classes of
\* characters, given as ranges <<lo, hi>> of code units and as rows
\* <<high, low, last low>> of surrogate pairs: the case-ignorable ones, and
\* the cased letters that are not case-ignorable.
CaseIgnorableRanges ==
  <<
    <<168, 168>>, <<173, 173>>, <<175, 175>>, <<180, 180>>, <<183, 184>>, <<688, 879>>,
    <<884, 885>>, <<890, 890>>, <<900, 901>>, <<903, 903>>, <<1155, 1161>>, <<1369,
    1369>>, <<1375, 1375>>, <<1425, 1469>>, <<1471, 1471>>, <<1473, 1474>>, <<1476,
    1477>>, <<1479, 1479>>, <<1524, 1524>>, <<1536, 1541>>, <<1552, 1562>>, <<1564,
    1564>>, <<1600, 1600>>, <<1611, 1631>>, <<1648, 1648>>, <<1750, 1757>>, <<1759,
    1768>>, <<1770, 1773>>, <<1807, 1807>>, <<1809, 1809>>, <<1840, 1866>>, <<1958,
    1968>>, <<2027, 2037>>, <<2042, 2042>>, <<2045, 2045>>, <<2070, 2093>>, <<2137,
    2139>>, <<2184, 2184>>, <<2192, 2193>>, <<2199, 2207>>, <<2249, 2306>>, <<2362,
    2362>>, <<2364, 2364>>, <<2369, 2376>>, <<2381, 2381>>, <<2385, 2391>>, <<2402,
    2403>>, <<2417, 2417>>, <<2433, 2433>>, <<2492, 2492>>, <<2497, 2500>>, <<2509,
    2509>>, <<2530, 2531>>, <<2558, 2558>>, <<2561, 2562>>, <<2620, 2620>>, <<2625,
    2626>>, <<2631, 2632>>, <<2635, 2637>>, <<2641, 2641>>, <<2672, 2673>>, <<2677,
    2677>>, <<2689, 2690>>, <<2748, 2748>>, <<2753, 2757>>, <<2759, 2760>>, <<2765,
    2765>>, <<2786, 2787>>, <<2810, 2815>>, <<2817, 2817>>, <<2876, 2876>>, <<2879,
    2879>>, <<2881, 2884>>, <<2893, 2893>>, <<2901, 2902>>, <<2914, 2915>>, <<2946,
    2946>>, <<3008, 3008>>, <<3021, 3021>>, <<3072, 3072>>, <<3076, 3076>>, <<3132,
    3132>>, <<3134, 3136>>, <<3142, 3144>>, <<3146, 3149>>, <<3157, 3158>>, <<3170,
    3171>>, <<3201, 3201>>, <<3260, 3260>>, <<3263, 3263>>, <<3270, 3270>>, <<3276,
    3277>>, <<3298, 3299>>, <<3328, 3329>>, <<3387, 3388>>, <<3393, 3396>>, <<3405,
    3405>>, <<3426, 3427>>, <<3457, 3457>>, <<3530, 3530>>, <<3538, 3540>>, <<3542,
    3542>>, <<3633, 3633>>, <<3636, 3642>>, <<3654, 3662>>, <<3761, 3761>>, <<3764,
    3772>>, <<3782, 3782>>, <<3784, 3790>>, <<3864, 3865>>, <<3893, 3893>>, <<3895,
    3895>>, <<3897, 3897>>, <<3953, 3966>>, <<3968, 3972>>, <<3974, 3975>>, <<3981,
    3991>>, <<3993, 4028>>, <<4038, 4038>>, <<4141, 4144>>, <<4146, 4151>>, <<4153,
    4154>>, <<4157, 4158>>, <<4184, 4185>>, <<4190, 4192>>, <<4209, 4212>>, <<4226,
    4226>>, <<4229, 4230>>, <<4237, 4237>>, <<4253, 4253>>, <<4348, 4348>>, <<4957,
    4959>>, <<5906, 5908>>, <<5938, 5939>>, <<5970, 5971>>, <<6002, 6003>>, <<6068,
    6069>>, <<6071, 6077>>, <<6086, 6086>>, <<6089, 6099>>, <<6103, 6103>>, <<6109,
    6109>>, <<6155, 6159>>, <<6211, 6211>>, <<6277, 6278>>, <<6313, 6313>>, <<6432,
    6434>>, <<6439, 6440>>, <<6450, 6450>>, <<6457, 6459>>, <<6679, 6680>>, <<6683,
    6683>>, <<6742, 6742>>, <<6744, 6750>>, <<6752, 6752>>, <<6754, 6754>>, <<6757,
    6764>>, <<6771, 6780>>, <<6783, 6783>>, <<6823, 6823>>, <<6832, 6877>>, <<6880,
    6891>>, <<6912, 6915>>, <<6964, 6964>>, <<6966, 6970>>, <<6972, 6972>>, <<6978,
    6978>>, <<7019, 7027>>, <<7040, 7041>>, <<7074, 7077>>, <<7080, 7081>>, <<7083,
    7085>>, <<7142, 7142>>, <<7144, 7145>>, <<7149, 7149>>, <<7151, 7153>>, <<7212,
    7219>>, <<7222, 7223>>, <<7288, 7293>>, <<7376, 7378>>, <<7380, 7392>>, <<7394,
    7400>>, <<7405, 7405>>, <<7412, 7412>>, <<7416, 7417>>, <<7468, 7530>>, <<7544,
    7544>>, <<7579, 7679>>, <<8125, 8125>>, <<8127, 8129>>, <<8141, 8143>>, <<8157,
    8159>>, <<8173, 8175>>, <<8189, 8190>>, <<8203, 8207>>, <<8216, 8217>>, <<8228,
    8228>>, <<8231, 8231>>, <<8234, 8238>>, <<8288, 8292>>, <<8294, 8303>>, <<8305,
    8305>>, <<8319, 8319>>, <<8336, 8348>>, <<8400, 8432>>, <<11388, 11389>>, <<11503,
    11505>>, <<11631, 11631>>, <<11647, 11647>>, <<11744, 11775>>, <<11823, 11823>>,
    <<12293, 12293>>, <<12330, 12333>>, <<12337, 12341>>, <<12347, 12347>>, <<12441,
    12446>>, <<12540, 12542>>, <<40981, 40981>>, <<42232, 42237>>, <<42508, 42508>>,
    <<42607, 42610>>, <<42612, 42621>>, <<42623, 42623>>, <<42652, 42655>>, <<42736,
    42737>>, <<42752, 42785>>, <<42864, 42864>>, <<42888, 42890>>, <<42993, 42996>>,
    <<43000, 43001>>, <<43010, 43010>>, <<43014, 43014>>, <<43019, 43019>>, <<43045,
    43046>>, <<43052, 43052>>, <<43204, 43205>>, <<43232, 43249>>, <<43263, 43263>>,
    <<43302, 43309>>, <<43335, 43345>>, <<43392, 43394>>, <<43443, 43443>>, <<43446,
    43449>>, <<43452, 43453>>, <<43471, 43471>>, <<43493, 43494>>, <<43561, 43566>>,
    <<43569, 43570>>, <<43573, 43574>>, <<43587, 43587>>, <<43596, 43596>>, <<43632,
    43632>>, <<43644, 43644>>, <<43696, 43696>>, <<43698, 43700>>, <<43703, 43704>>,
    <<43710, 43711>>, <<43713, 43713>>, <<43741, 43741>>, <<43756, 43757>>, <<43763,
    43764>>, <<43766, 43766>>, <<43867, 43871>>, <<43881, 43883>>, <<44005, 44005>>,
    <<44008, 44008>>, <<44013, 44013>>, <<64286, 64286>>, <<64434, 64450>>, <<65024,
    65039>>, <<65043, 65043>>, <<65056, 65071>>, <<65106, 65106>>, <<65109, 65109>>,
    <<65279, 65279>>, <<65287, 65287>>, <<65294, 65294>>, <<65306, 65306>>, <<65342,
    65342>>, <<65344, 65344>>, <<65392, 65392>>, <<65438, 65439>>, <<65507, 65507>>,
    <<65529, 65531>>
  >>

CaseIgnorablePairRanges ==
  <<
    <<55296, 56829, 56829>>, <<55296, 57056, 57056>>, <<55296, 57206, 57210>>, <<55297,
    57216, 57221>>, <<55297, 57223, 57264>>, <<55297, 57266, 57274>>, <<55298, 56833,
    56835>>, <<55298, 56837, 56838>>, <<55298, 56844, 56847>>, <<55298, 56888, 56890>>,
    <<55298, 56895, 56895>>, <<55298, 57061, 57062>>, <<55299, 56612, 56615>>, <<55299,
    56654, 56654>>, <<55299, 56681, 56685>>, <<55299, 56687, 56687>>, <<55299, 57003,
    57004>>, <<55299, 57029, 57029>>, <<55299, 57082, 57087>>, <<55299, 57158, 57168>>,
    <<55299, 57218, 57221>>, <<55300, 56321, 56321>>, <<55300, 56376, 56390>>, <<55300,
    56432, 56432>>, <<55300, 56435, 56436>>, <<55300, 56447, 56449>>, <<55300, 56499,
    56502>>, <<55300, 56505, 56506>>, <<55300, 56509, 56509>>, <<55300, 56514, 56514>>,
    <<55300, 56525, 56525>>, <<55300, 56576, 56578>>, <<55300, 56615, 56619>>, <<55300,
    56621, 56628>>, <<55300, 56691, 56691>>, <<55300, 56704, 56705>>, <<55300, 56758,
    56766>>, <<55300, 56777, 56780>>, <<55300, 56783, 56783>>, <<55300, 56879, 56881>>,
    <<55300, 56884, 56884>>, <<55300, 56886, 56887>>, <<55300, 56894, 56894>>, <<55300,
    56897, 56897>>, <<55300, 57055, 57055>>, <<55300, 57059, 57066>>, <<55300, 57088,
    57089>>, <<55300, 57147, 57148>>, <<55300, 57152, 57152>>, <<55300, 57190, 57196>>,
    <<55300, 57200, 57204>>, <<55300, 57275, 57280>>, <<55300, 57294, 57294>>, <<55300,
    57296, 57296>>, <<55300, 57298, 57298>>, <<55300, 57313, 57314>>, <<55301, 56376,
    56383>>, <<55301, 56386, 56388>>, <<55301, 56390, 56390>>, <<55301, 56414, 56414>>,
    <<55301, 56499, 56504>>, <<55301, 56506, 56506>>, <<55301, 56511, 56512>>, <<55301,
    56514, 56515>>, <<55301, 56754, 56757>>, <<55301, 56764, 56765>>, <<55301, 56767,
    56768>>, <<55301, 56796, 56797>>, <<55301, 56883, 56890>>, <<55301, 56893, 56893>>,
    <<55301, 56895, 56896>>, <<55301, 57003, 57003>>, <<55301, 57005, 57005>>, <<55301,
    57008, 57013>>, <<55301, 57015, 57015>>, <<55301, 57117, 57117>>, <<55301, 57119,
    57119>>, <<55301, 57122, 57125>>, <<55301, 57127, 57131>>, <<55302, 56367, 56375>>,
    <<55302, 56377, 56378>>, <<55302, 56635, 56636>>, <<55302, 56638, 56638>>, <<55302,
    56643, 56643>>, <<55302, 56788, 56791>>, <<55302, 56794, 56795>>, <<55302, 56800,
    56800>>, <<55302, 56833, 56842>>, <<55302, 56883, 56888>>, <<55302, 56891, 56894>>,
    <<55302, 56903, 56903>>, <<55302, 56913, 56918>>, <<55302, 56921, 56923>>, <<55302,
    56970, 56982>>, <<55302, 56984, 56985>>, <<55302, 57184, 57184>>, <<55302, 57186,
    57188>>, <<55302, 57190, 57190>>, <<55303, 56368, 56374>>, <<55303, 56376, 56381>>,
    <<55303, 56383, 56383>>, <<55303, 56466, 56487>>, <<55303, 56490, 56496>>, <<55303,
    56498, 56499>>, <<55303, 56501, 56502>>, <<55303, 56625, 56630>>, <<55303, 56634,
    56634>>, <<55303, 56636, 56637>>, <<55303, 56639, 56645>>, <<55303, 56647, 56647>>,
    <<55303, 56720, 56721>>, <<55303, 56725, 56725>>, <<55303, 56727, 56727>>, <<55303,
    56793, 56793>>, <<55303, 57075, 57076>>, <<55303, 57088, 57089>>, <<55303, 57142,
    57146>>, <<55303, 57152, 57152>>, <<55303, 57154, 57154>>, <<55303, 57178, 57178>>,
    <<55309, 56368, 56384>>, <<55309, 56391, 56405>>, <<55320, 56606, 56617>>, <<55320,
    56621, 56623>>, <<55322, 57072, 57076>>, <<55322, 57136, 57142>>, <<55322, 57152,
    57155>>, <<55323, 56640, 56642>>, <<55323, 56683, 56684>>, <<55323, 57167, 57167>>,
    <<55323, 57231, 57247>>, <<55323, 57312, 57313>>, <<55323, 57315, 57316>>, <<55323,
    57330, 57331>>, <<55339, 57328, 57331>>, <<55339, 57333, 57339>>, <<55339, 57341,
    57342>>, <<55343, 56477, 56478>>, <<55343, 56480, 56483>>, <<55347, 57088, 57133>>,
    <<55347, 57136, 57158>>, <<55348, 56679, 56681>>, <<55348, 56691, 56706>>, <<55348,
    56709, 56715>>, <<55348, 56746, 56749>>, <<55348, 56898, 56900>>, <<55350, 56832,
    56886>>, <<55350, 56891, 56940>>, <<55350, 56949, 56949>>, <<55350, 56964, 56964>>,
    <<55350, 56987, 56991>>, <<55350, 56993, 57007>>, <<55352, 56320, 56326>>, <<55352,
    56328, 56344>>, <<55352, 56347, 56353>>, <<55352, 56355, 56356>>, <<55352, 56358,
    56362>>, <<55352, 56368, 56429>>, <<55352, 56463, 56463>>, <<55352, 56624, 56637>>,
    <<55352, 57006, 57006>>, <<55352, 57068, 57071>>, <<55353, 56555, 56559>>, <<55353,
    56814, 56815>>, <<55353, 57059, 57059>>, <<55353, 57062, 57062>>, <<55353, 57070,
    57071>>, <<55353, 57077, 57077>>, <<55353, 57087, 57087>>, <<55354, 56528, 56534>>,
    <<55354, 56644, 56651>>, <<55356, 57339, 57343>>, <<56128, 56321, 56321>>, <<56128,
    56352, 56447>>, <<56128, 56576, 56815>>
  >>

CasedRanges ==
  <<
    <<170, 170>>, <<181, 181>>, <<186, 186>>, <<192, 214>>, <<216, 246>>, <<248, 442>>,
    <<444, 447>>, <<452, 659>>, <<662, 687>>, <<880, 883>>, <<886, 887>>, <<891, 893>>,
    <<895, 895>>, <<902, 902>>, <<904, 906>>, <<908, 908>>, <<910, 929>>, <<931, 1013>>,
    <<1015, 1153>>, <<1162, 1327>>, <<1329, 1366>>, <<1376, 1416>>, <<4256, 4293>>,
    <<4295, 4295>>, <<4301, 4301>>, <<4304, 4346>>, <<4349, 4351>>, <<5024, 5109>>,
    <<5112, 5117>>, <<7296, 7306>>, <<7312, 7354>>, <<7357, 7359>>, <<7424, 7467>>,
    <<7531, 7543>>, <<7545, 7578>>, <<7680, 7957>>, <<7960, 7965>>, <<7968, 8005>>,
    <<8008, 8013>>, <<8016, 8023>>, <<8025, 8025>>, <<8027, 8027>>, <<8029, 8029>>,
    <<8031, 8061>>, <<8064, 8116>>, <<8118, 8124>>, <<8126, 8126>>, <<8130, 8132>>,
    <<8134, 8140>>, <<8144, 8147>>, <<8150, 8155>>, <<8160, 8172>>, <<8178, 8180>>,
    <<8182, 8188>>, <<8450, 8450>>, <<8455, 8455>>, <<8458, 8467>>, <<8469, 8469>>,
    <<8473, 8477>>, <<8484, 8484>>, <<8486, 8486>>, <<8488, 8488>>, <<8490, 8493>>,
    <<8495, 8500>>, <<8505, 8505>>, <<8508, 8511>>, <<8517, 8521>>, <<8526, 8526>>,
    <<8544, 8575>>, <<8579, 8580>>, <<9398, 9449>>, <<11264, 11387>>, <<11390, 11492>>,
    <<11499, 11502>>, <<11506, 11507>>, <<11520, 11557>>, <<11559, 11559>>, <<11565,
    11565>>, <<42560, 42605>>, <<42624, 42651>>, <<42786, 42863>>, <<42865, 42887>>,
    <<42891, 42894>>, <<42896, 42972>>, <<42997, 42998>>, <<43002, 43002>>, <<43824,
    43866>>, <<43872, 43880>>, <<43888, 43967>>, <<64256, 64262>>, <<64275, 64279>>,
    <<65313, 65338>>, <<65345, 65370>>
  >>

CasedPairRanges ==
  <<
    <<55297, 56320, 56399>>, <<55297, 56496, 56531>>, <<55297, 56536, 56571>>, <<55297,
    56688, 56698>>, <<55297, 56700, 56714>>, <<55297, 56716, 56722>>, <<55297, 56724,
    56725>>, <<55297, 56727, 56737>>, <<55297, 56739, 56753>>, <<55297, 56755, 56761>>,
    <<55297, 56763, 56764>>, <<55299, 56448, 56498>>, <<55299, 56512, 56562>>, <<55299,
    56656, 56677>>, <<55299, 56688, 56709>>, <<55302, 56480, 56543>>, <<55323, 56896,
    56959>>, <<55323, 56992, 57016>>, <<55323, 57019, 57043>>, <<55349, 56320, 56404>>,
    <<55349, 56406, 56476>>, <<55349, 56478, 56479>>, <<55349, 56482, 56482>>, <<55349,
    56485, 56486>>, <<55349, 56489, 56492>>, <<55349, 56494, 56505>>, <<55349, 56507,
    56507>>, <<55349, 56509, 56515>>, <<55349, 56517, 56581>>, <<55349, 56583, 56586>>,
    <<55349, 56589, 56596>>, <<55349, 56598, 56604>>, <<55349, 56606, 56633>>, <<55349,
    56635, 56638>>, <<55349, 56640, 56644>>, <<55349, 56646, 56646>>, <<55349, 56650,
    56656>>, <<55349, 56658, 56997>>, <<55349, 57000, 57024>>, <<55349, 57026, 57050>>,
    <<55349, 57052, 57082>>, <<55349, 57084, 57108>>, <<55349, 57110, 57140>>, <<55349,
    57142, 57166>>, <<55349, 57168, 57198>>, <<55349, 57200, 57224>>, <<55349, 57226,
    57256>>, <<55349, 57258, 57282>>, <<55349, 57284, 57291>>, <<55351, 57088, 57097>>,
    <<55351, 57099, 57118>>, <<55351, 57125, 57130>>, <<55354, 56576, 56643>>, <<55356,
    56624, 56649>>, <<55356, 56656, 56681>>, <<55356, 56688, 56713>>
  >>

\* (the grave accent, which no string can hold, is written "U+0060")
CaseIgnorable == {"'", ".", ":", "^", "U+0060"} \cup InRanges(CaseIgnorableRanges)
CaseIgnorablePairs == PairsInRanges(CaseIgnorablePairRanges)
CasedLetters == LowerSet \cup UpperSet \cup InRanges(CasedRanges)
CasedPairs == PairsInRanges(CasedPairRanges)
HighSurrogates == CodeUnits(55296, 56319, 1)
LowSurrogates == CodeUnits(56320, 57343, 1)

\* the class of the character that the code unit at index k of s is, or is
\* half of
CaseClass(s, k) ==
  LET PairAt(j) == j >= 1 /\ j < Len(s) /\ s[j] \in HighSurrogates /\ s[j + 1] \in LowSurrogates
      OfPair(p) == IF p \in CaseIgnorablePairs THEN "ignorable"
                   ELSE IF p \in CasedPairs THEN "cased" ELSE "other"
  IN IF PairAt(k) THEN OfPair(<<s[k], s[k + 1]>>)
     ELSE IF PairAt(k - 1) THEN OfPair(<<s[k - 1], s[k]>>)
     ELSE IF s[k] \in CaseIgnorable THEN "ignorable"
     ELSE IF s[k] \in CasedLetters THEN "cased" ELSE "other"

\* Final_Sigma: a cased letter stands before index k, with nothing but
\* case-ignorable characters in between, and none stands after it in this way
FinalSigma(s, k) ==
  /\ \E b \in 1..(k - 1) :
       /\ CaseClass(s, b) = "cased"
       /\ \A m \in (b + 1)..(k - 1) : CaseClass(s, m) = "ignorable"
  /\ ~\E a \in (k + 1)..Len(s) :
       /\ CaseClass(s, a) = "cased"
       /\ \A m \in (k + 1)..(a - 1) : CaseClass(s, m) = "ignorable"

\* String.prototype.toLowerCase
toLowerCase(s) ==
  Flat([k \in DOMAIN s |->
          IF s[k] = "U+03A3" /\ FinalSigma(s, k) THEN <<"U+03C2">>
          ELSE ConvertAt(s, k, LowerTable, LowerPairTable)])

\* the class [a-z0-9가-힣\s-]
SlugChars == LowerSet \cup Digits \cup HangulSet \cup Whitespace \cup {"-"}

\* .toLowerCase().replace(/[^a-z0-9가-힣\s-]/g, '').replace(/\s+/g, '-')
\* .replace(/-+/g, '-').trim(): every run of white space and '-' that holds a
\* white space or two '-' becomes one '-'
Slug(text) ==
  LET kept == SelectSeq(toLowerCase(text), LAMBDA c : c \in SlugChars)
      dashed == [k \in DOMAIN kept |-> IF kept[k] \in Whitespace THEN "-" ELSE kept[k]]
  IN trim(Flat([k \in DOMAIN dashed |->
                  IF dashed[k] = "-" /\ k > 1 /\ dashed[k - 1] = "-"
                  THEN <<>> ELSE <<dashed[k]>>]))

DigitChars == <<"0", "1", "2", "3", "4", "5", "6", "7", "8", "9">>

\* a number in a template literal
RECURSIVE Decimal(_)
Decimal(n) ==
  IF n < 10 THEN <<DigitChars[n + 1]>>
  ELSE Decimal(n \div 10) \o <<DigitChars[(n % 10) + 1]>>

HeadingPrefix == <<"h", "e", "a", "d", "i", "n", "g", "-">>

\* `heading-${slug || index}`
generateHeadingId(text, index) ==
  HeadingPrefix \o (IF Slug(text) # <<>> THEN Slug(text) ELSE Decimal(index))

\* the elements of s that satisfy Test, as the sequence of their indices
Indices(s, Test(_)) == SelectSeq([k \in DOMAIN s |-> k], LAMBDA k : Test(s[k]))

\* lines.forEach((line, index) => ...): one entry for each line that matches
\* /^(#{1,6})\s+(.+)$/, headingIndex counting the entries before it
extractTableOfContents(markdown) ==
  LET ls == split(markdown)
      hits == Indices(ls, LAMBDA l : HeadingMatch(l, 6).isHeading)
  IN [n \in DOMAIN hits |->
        LET m == HeadingMatch(ls[hits[n]], 6)
        IN [id |-> generateHeadingId(m.title, n - 1), title |-> m.title,
            level |-> m.level, position |-> hits[n]]]

\* String.prototype.trim for spaces and tabs only
trimBlanks(s) ==
  IF \A k \in DOMAIN s : s[k] \in {" ", "\t"} THEN <<>>
  ELSE SubSeq(s, RunEnd(s, 1, {" ", "\t"}),
                 CHOOSE b \in DOMAIN s :
                   s[b] \notin {" ", "\t"} /\ \A m \in (b + 1)..Len(s) : s[m] \in {" ", "\t"})

\* the content of an ATX heading: the trimmed rest of the line without its
\* closing run of '#', which counts when it is all there is or follows a
\* space or tab
AtxContent(rest) ==
  LET r == trimBlanks(rest)
      e == IF r # <<>> /\ r[Len(r)] = "#" THEN RunStart(r, Len(r), {"#"}) ELSE Len(r) + 1
  IN IF e > Len(r) THEN r
     ELSE IF e = 1 THEN <<>>
     ELSE IF r[e - 1] \in {" ", "\t"} THEN trimBlanks(SubSeq(r, 1, e - 1))
     ELSE r

\* one line of a CommonMark document that PlainMarkdown holds of: the line
\* is an ATX heading, rendered as <hN>content</hN>, when it has at most three
\* spaces, then one to six '#', then a space, a tab or the end of the line;
\* otherwise it belongs to a paragraph or to an indented code block
AtxHeading(line) ==
  LET ind == RunEnd(line, 1, {" "}) - 1
      h == RunEnd(line, ind + 1, {"#"}) - ind - 1
      after == ind + h + 1
  IN IF ind <= 3 /\ h \in 1..6 /\ (after > Len(line) \/ line[after] \in {" ", "\t"})
     THEN Heading(AtxContent(From(line, after)), h)
     ELSE NotHeading

\* the texts for which the page of unified().use(remarkParse)
\* .use(remarkRehype).use(rehypeStringify), a library that is not part of the
\* source, is known from the CommonMark rules alone: line endings, spaces,
\* tabs, '#', '!', letters, digits and Hangul syllables, and so no emphasis,
\* code, link, image, HTML, entity, escape, list, quote, rule or setext
\* underline
PlainMarkdown(markdown) ==
  \A k \in DOMAIN markdown :
    \/ markdown[k] \in {"\n", "\r", " ", "\t", "#", "!"}
    \/ markdown[k] \in UpperSet
    \/ markdown[k] \in LowerSet
    \/ markdown[k] \in Digits
    \/ markdown[k] \in HangulSet

\* the pages markdownToHtml(markdown) can return, each as the sequence of its
\* heading elements in order. For a text that PlainMarkdown holds of it is one
\* page: a line ends at "\n", at "\r" or at "\r" followed by "\n", as in
\* CommonMark; position is the number of the line the element comes from as
\* markdown.split('\n') numbers the lines; id is what html.replace(...) gives
\* the element, headingIndex counting the elements before it, each of which
\* /<h([1-6])>([^<]*)<\/h\1>/ matches. For any other text nothing is assumed
\* about the library, and the page can hold any heading elements
markdownToHtml(markdown) ==
  LET lineStart(p) ==
        \/ p = 1
        \/ markdown[p - 1] = "\n"
        \/ markdown[p - 1] = "\r" /\ markdown[p] # "\n"
      lineAt(p) == SubSeq(markdown, p, RunEndNot(markdown, p, {"\n", "\r"}) - 1)
      starts == SelectSeq([p \in DOMAIN markdown |-> p],
                          LAMBDA p : lineStart(p) /\ AtxHeading(lineAt(p)).isHeading)
      hs == [n \in DOMAIN starts |-> AtxHeading(lineAt(starts[n]))]
      page == [n \in DOMAIN starts |->
                 [level |-> hs[n].level, content |-> hs[n].title,
                  position |->
                    1 + Cardinality({ q \in 1..(starts[n] - 1) : markdown[q] = "\n" }),
                  id |-> generateHeadingId(hs[n].title, n - 1)]]
  IN IF PlainMarkdown(markdown)
     THEN {page}
     ELSE Seq([level : 1..6, content : Seq(STRING), position : Nat \ {0},
               id : Seq(STRING)])

\* what the book is made of
BookTokens ==
  {<<"\n">>, <<" ">>, <<"x">>, <<"#">>, <<"#", " ", "A">>, <<"#", " ", "!">>, Preface}

\* what the book functions leave alone
restVars ==
  <<lines, pc, caller, splitVars, numbering, analyzeVars, headingLine, headingResult,
    docVars, editVars, readVars>>

InitBook ==
  /\ IdleCall
  /\ stage = "book"
  /\ typed = 0
  /\ headingLine = <<>>
  /\ headingResult = NotHeading
  /\ IdleDoc
  /\ IdleBook

\* the caller's book grows by one token
TypeBook ==
  /\ stage = "book"
  /\ typed < MaxBookTokens
  /\ \E tok \in BookTokens : bookText' = bookText \o tok
  /\ typed' = typed + 1
  /\ UNCHANGED <<restVars, stage, chapterVars, tocVars>>

\* a call of splitByChapters(content)
SplitByChapters ==
  /\ stage = "book"
  /\ chaptersRaw' = splitByChapters(bookText)
  /\ stage' = "chapters"
  /\ UNCHANGED <<restVars, typed, bookText, exportChapters, epubChapters, tocVars>>

\* generateEPUB(markdown, options) up to the chapters it converts
GenerateEPUB ==
  /\ stage = "book"
  /\ exportChapters' = splitIntoChapters(bookText)
  /\ \E title \in MetadataTitles :
       epubChapters' = WithFallback(exportChapters', bookText, title)
  /\ stage' = "epub"
  /\ UNCHANGED <<restVars, typed, bookText, chaptersRaw, tocVars>>

\* POST of the export route with an empty content: if (!content), status 400
ExportRejected ==
  /\ stage = "book"
  /\ bookText = <<>>
  /\ stage' = "rejected"
  /\ UNCHANGED <<restVars, typed, bookText, chapterVars, tocVars>>

\* POST of the export route for a PDF, up to the wait for generatePDF:
\* tableOfContents = extractTableOfContents(content), then generatePDF waits
\* for markdownToHtml(markdown)
ExportPDF ==
  /\ stage = "book"
  /\ bookText # <<>>
  /\ tableOfContents' = extractTableOfContents(bookText)
  /\ stage' = "rendering"
  /\ UNCHANGED <<restVars, typed, bookText, chapterVars, contentHtml>>

\* the pipeline of markdownToHtml answers: html = await markdownToHtml(markdown)
\* is one of the pages it can return
RenderPDF ==
  /\ stage = "rendering"
  /\ contentHtml' \in markdownToHtml(bookText)
  /\ stage' = "pdf"
  /\ UNCHANGED <<restVars, typed, bookText, chapterVars, tableOfContents>>

NextBook ==
  TypeBook \/ SplitByChapters \/ GenerateEPUB \/ ExportRejected \/ ExportPDF \/ RenderPDF

SpecBook == InitBook /\ [][NextBook]_vars

\* ------------------------------------------------------- analyzeReadability
\* !l.trim(): the line holds white space only
Blank(l) == \A k \in DOMAIN l : l[k] \in Whitespace

\* /^#{1,6}\s/.test(l): after six '#' a seventh is no white space
HashPrefix(l) ==
  \E h \in 1..6 :
    /\ h < Len(l)
    /\ \A k \in 1..h : l[k] = "#"
    /\ l[h + 1] \in Whitespace

\* content.match(/  +/g).length: the runs of two or more spaces
SpaceRuns(s) ==
  Cardinality({ p \in DOMAIN s :
                  /\ s[p] = " "
                  /\ p < Len(s) /\ s[p + 1] = " "
                  /\ (p = 1 \/ s[p - 1] # " ") })

\* variant: a share of exactly 30% counts too
TooManyLong_atLeast(long, nonEmpty) == 10 * long >= 3 * nonEmpty

\* variant: the comparison is turned around
TooManyLong_fewer(long, nonEmpty) == 10 * long < 3 * nonEmpty

\* longLines.length > nonEmptyLines.length * 0.3: the product in floating
\* point is 3n/10 exactly whenever that is a whole number, and is never on
\* the other side of a whole number otherwise
TooManyLong(long, nonEmpty) == 10 * long > 3 * nonEmpty

\* the pairs of issue and suggestion, by what they say: very long lines
\* (with their number) / turn on automatic line breaks; no heading detected /
\* turn on chapter detection; too few paragraph breaks / improve with
\* automatic line breaks; much needless white space / turn on the removal
\* of spaces
LongLinesIssue(n) == [issue |-> <<"veryLongLines", n>>, suggestion |-> "autoLineBreak", penalty |-> 20]
NoHeadingIssue == [issue |-> <<"noHeadings">>, suggestion |-> "detectChapters", penalty |-> 15]
ParagraphIssue == [issue |-> <<"fewParagraphBreaks">>, suggestion |-> "autoLineBreak", penalty |-> 15]
SpacesIssue == [issue |-> <<"excessiveSpaces">>, suggestion |-> "removeExtraSpaces", penalty |-> 10]

\* the pairs that the four checks push, in the order of the checks
Checks(content) ==
  LET ls == split(content)
      nonEmptyLines == SelectSeq(ls, LAMBDA l : ~Blank(l))
      longLines == SelectSeq(nonEmptyLines, LAMBDA l : Len(l) > 200)
      headings == SelectSeq(ls, LAMBDA l : HashPrefix(l) \/ isChapterHeading(l).isHeading)
      \* avgLineLength > 150, NaN (and so not greater) without non-empty lines
      total == SumRange([k \in DOMAIN nonEmptyLines |-> Len(nonEmptyLines[k])],
                        1, Len(nonEmptyLines))
  IN (IF TooManyLong(Len(longLines), Len(nonEmptyLines))
      THEN <<LongLinesIssue(Len(longLines))>> ELSE <<>>)
     \o (IF headings = <<>> /\ Len(content) > 3000 THEN <<NoHeadingIssue>> ELSE <<>>)
     \o (IF nonEmptyLines # <<>> /\ total > 150 * Len(nonEmptyLines)
         THEN <<ParagraphIssue>> ELSE <<>>)
     \o (IF SpaceRuns(content) > 20 THEN <<SpacesIssue>> ELSE <<>>)

\* return { issues, score: Math.max(0, score), suggestions }
Report(found) ==
  [issues |-> [k \in DOMAIN found |-> found[k].issue],
   score |-> Max(0, 100 - SumRange([k \in DOMAIN found |-> found[k].penalty],
                                   1, Len(found))),
   suggestions |-> [k \in DOMAIN found |-> found[k].suggestion]]

analyzeReadability(content) == Report(Checks(content))

\* a line of n times the character c
LineOf(c, n) == [k \in 1..n |-> c]

\* what the text is made of, each a line break and a line: a markdown
\* heading, a heading in capitals, a line of more than 200 characters, a line
\* of more than 150, a line with 21 runs of spaces, more than 3000 spaces, and
\* a short line
ReadTokens ==
  { <<"\n">> \o tok :
      tok \in { <<"#", " ", "T">>,
                <<"C", "H", "A", "P", "T", "E", "R", " ", "O", "N", "E">>,
                LineOf("z", 201),
                LineOf("z", 151),
                Flat([k \in 1..21 |-> <<"a", " ", " ">>]),
                LineOf(" ", 3001),
                <<"x">> } }

\* 25 lines of 201 times c, and what stands between the text and them
MoreLines(c) == join([k \in 1..25 |-> LineOf(c, 201)])
Separators == {<<>>, <<"\n">>}

\* what analyzeReadability leaves alone
readRest ==
  <<lines, pc, caller, splitVars, numbering, analyzeVars, headingLine, headingResult,
    docOptions, preprocessed, reprocessed, lineBroken, detectInput, formatted,
    editVars, bookText, chapterVars, tocVars>>

InitRead ==
  /\ IdleCall
  /\ stage = "text"
  /\ typed = 0
  /\ headingLine = <<>>
  /\ headingResult = NotHeading
  /\ IdleDoc
  /\ IdleBook

\* the caller's text grows by one token
TypeLine ==
  /\ stage = "text"
  /\ typed < MaxReadTokens
  /\ \E tok \in ReadTokens : docText' = docText \o tok
  /\ typed' = typed + 1
  /\ UNCHANGED <<readRest, stage, readVars>>

\* POST of the preprocess route with an empty content: if (!content ...),
\* status 400
AnalyzeRejected ==
  /\ stage = "text"
  /\ docText = <<>>
  /\ stage' = "rejected"
  /\ UNCHANGED <<readRest, typed, docText, readVars>>

\* POST of the preprocess route with analyzeOnly:
\* const readability = analyzeReadability(content)
AnalyzeReadability ==
  /\ stage = "text"
  /\ docText # <<>>
  /\ readability' = analyzeReadability(docText)
  /\ stage' = "analyzed"
  /\ UNCHANGED <<readRest, typed, docText, appended, appendedReadability>>

\* analyzeReadability of the same text with 25 long lines after it
AnalyzeAppended ==
  /\ stage = "analyzed"
  /\ \E c \in {"z", " "}, sep \in Separators :
       appended' = docText \o sep \o MoreLines(c)
  /\ appendedReadability' = analyzeReadability(appended')
  /\ stage' = "appended"
  /\ UNCHANGED <<readRest, typed, docText, readability>>

NextRead == TypeLine \/ AnalyzeRejected \/ AnalyzeReadability \/ AnalyzeAppended

SpecRead == InitRead /\ [][NextRead]_vars

\* =================================================================== claims
\* splitIntoChunks has returned (to a direct caller or to analyzeContent)
SplitReturned ==
  pc \in {"done", "chunks", "await", "delay"} \/ (pc = "analyzed" /\ Len(chunks) > 0)

ContentSet(c) == { c.content[k] : k \in DOMAIN c.content }

\* docText.length of a chunk
ContentLength(c) == JoinLength(lines, c.content)

\* C1: no line is dropped - every line index of the document occurs in the
\* docText of at least one returned chunk.
C1_NoLineDropped ==
  SplitReturned =>
    \A k \in 0..(Len(lines) - 1) : \E c \in DOMAIN chunks : k \in ContentSet(chunks[c])

\* the first chunk was cut at a split point before the end of the buffer: the
\* line after it would still have fitted, so it was cut off and carried over
C1_Witness ==
  /\ pc = "done"
  /\ Len(chunks) >= 2
  /\ LET c == chunks[1]
         nxt == c.content[Len(c.content)] + 1
     IN /\ nxt < Len(lines)
        /\ ContentLength(c) + 1 + lineLength(lines[nxt + 1]) <= CHUNK_SIZE

\* C2: startLine and endLine of every chunk are the indices of the first and
\* last line of its docText, i.e. docText = lines startLine..endLine.
C2_StartEndDelimitContent ==
  SplitReturned =>
    \A c \in DOMAIN chunks :
      chunks[c].content =
        [k \in 1..(chunks[c].endLine - chunks[c].startLine + 1) |->
           chunks[c].startLine + k - 1]

\* the lines of chunk c that are not in chunk c - 1
Remainder(cs, c) ==
  IF c = 1 THEN cs[1].content
  ELSE LET NotShared(x) == x \notin ContentSet(cs[c - 1])
       IN SelectSeq(cs[c].content, NotShared)

RECURSIVE Deduplicated(_, _)
Deduplicated(cs, n) ==
  IF n = 0 THEN <<>> ELSE Deduplicated(cs, n - 1) \o Remainder(cs, n)

\* C3: chunks are contiguous runs of the document's lines in order, a chunk
\* shares at most 7 lines with its predecessor, and the chunks with the
\* shared lines removed concatenate to exactly the document's lines.
C3_Reconstruct ==
  SplitReturned =>
    /\ \A c \in DOMAIN chunks :
         \A k \in 1..(Len(chunks[c].content) - 1) :
           chunks[c].content[k + 1] = chunks[c].content[k] + 1
    /\ \A c \in 2..Len(chunks) :
         Cardinality(ContentSet(chunks[c]) \cap ContentSet(chunks[c - 1])) <= 7
    /\ Deduplicated(chunks, Len(chunks)) = Range0(Len(lines))

\* a chunk of more than 7 lines was closed and the next one shares exactly 7
C3_Witness ==
  /\ pc = "done"
  /\ \E c \in 2..Len(chunks) :
       /\ Len(chunks[c - 1].content) > 7
       /\ Cardinality(ContentSet(chunks[c]) \cap ContentSet(chunks[c - 1])) = 7

\* C4: exactly one chunk is first (index 0), exactly one is last (the highest
\* index), and the indexes are 0, 1, 2, ... in order.
C4_Flags ==
  SplitReturned =>
    /\ Len(chunks) >= 1
    /\ \A c \in DOMAIN chunks : chunks[c].index = c - 1
    /\ { c \in DOMAIN chunks : chunks[c].isFirst } = {1}
    /\ { c \in DOMAIN chunks : chunks[c].isLast } = {Len(chunks)}

C4_Witness == pc = "done" /\ Len(chunks) >= 3

\* C5: when no line is longer than CHUNK_SIZE, every chunk's docText is at
\* most CHUNK_SIZE characters.
C5_ChunkFits ==
  (SplitReturned /\ \A k \in DOMAIN lines : lines[k].len <= CHUNK_SIZE) =>
    \A c \in DOMAIN chunks : ContentLength(chunks[c]) <= CHUNK_SIZE

\* C6: for a non-empty document every chunk's docText has at least one
\* character.
C6_NoEmptyChunk ==
  (SplitReturned /\ DocLength(lines) > 0) =>
    \A c \in DOMAIN chunks : ContentLength(chunks[c]) >= 1

\* C7: needsChunking is false exactly when the document has at most
\* CHUNK_SIZE characters; analyzeContent takes its single-call path exactly
\* then.
C7_NeedsChunking ==
  /\ (~needsChunking(lines)) <=> (DocLength(lines) <= CHUNK_SIZE)
  /\ caller = "analyze" =>
       ((pc \in {"single", "analyzed"} /\ i = 0) <=> (DocLength(lines) <= CHUNK_SIZE))

\* a document of exactly CHUNK_SIZE characters went down the single-call path
C7_Witness ==
  caller = "analyze" /\ pc = "analyzed" /\ i = 0 /\ DocLength(lines) = CHUNK_SIZE

\* C9: the merged TOC and image points of a chunked analysis equal those of a
\* single-call analysis of the same document (same entries, positions, order).
C9_MergeConsistency ==
  (pc = "analyzed" /\ Len(chunks) > 0 /\ failures = 0) =>
    /\ analysis.tableOfContents = SingleAnalysis(lines, numbering, TRUE).tableOfContents
    /\ analysis.imagePoints = SingleAnalysis(lines, numbering, TRUE).imagePoints

\* C10: every stored position is the document line number of the reported
\* line, in one numbering (from 0 or from 1) for all chunks.
C10_RebasedAbsolute ==
  \E n \in {0, 1} :
    \A r \in DOMAIN results :
      /\ \A k \in DOMAIN results[r].tableOfContents :
           results[r].tableOfContents[k].position =
             results[r].tableOfContents[k].title + n
      /\ \A k \in DOMAIN results[r].imagePoints :
           results[r].imagePoints[k].lineNumber =
             results[r].imagePoints[k].section + n

\* the flags part of the 20,000-character example
FlagsOnlyAtEnds ==
  /\ { c \in DOMAIN chunks : chunks[c].isFirst } = {1}
  /\ { c \in DOMAIN chunks : chunks[c].isLast } = {Len(chunks)}

\* C8 as stated: every 20,000-character document gives exactly 3 chunks,
\* isFirst only on chunk 0 and isLast only on the final chunk.
C8_ThreeChunksAnyLines ==
  (pc = "done" /\ DocLength(lines) = 20000) =>
    (Len(chunks) = 3 /\ FlagsOnlyAtEnds)

ProseLines ==
  \A k \in DOMAIN lines : lines[k].kind = "text" /\ lines[k].len <= 80

\* C8 (amended): a 20,000-character document whose lines are all non-blank,
\* non-heading and at most 80 characters long gives exactly 3 chunks, isFirst
\* only on chunk 0 and isLast only on the final chunk.
C8_ThreeChunksProse ==
  (pc = "done" /\ DocLength(lines) = 20000 /\ ProseLines) =>
    (Len(chunks) = 3 /\ FlagsOnlyAtEnds)

\* such a document with lines of two different lengths has been split
C8_Witness ==
  /\ pc = "done"
  /\ DocLength(lines) = 20000
  /\ ProseLines
  /\ lines[1].len # lines[Len(lines)].len
  /\ Len(chunks) = 3

\* ---------------------------------------------------------------- C11, C12
MergeReturned == pc = "merged"

\* index of the entry e in the sequence s (the entries made by MakeFragment
\* are pairwise different)
IndexIn(s, e) == CHOOSE k \in DOMAIN s : s[k] = e

\* out holds exactly the elements of src, ascending by key, and elements with
\* equal keys stand in the order they have in src
StableSorted(out, src, key) ==
  /\ Len(out) = Len(src)
  /\ \A k \in DOMAIN src : \E m \in DOMAIN out : out[m] = src[k]
  /\ \A a, b \in DOMAIN out :
       a < b => /\ out[a][key] <= out[b][key]
                /\ out[a][key] = out[b][key] => IndexIn(src, out[a]) < IndexIn(src, out[b])

\* C11: the merged table of contents is the concatenation of the fragments'
\* entries in chunk order, sorted ascending by position, and the merged image
\* points likewise by lineNumber; entries with equal keys keep chunk order.
C11_MergeSorted ==
  MergeReturned =>
    /\ StableSorted(analysis.tableOfContents, FlatMap(results, "tableOfContents"),
                    "position")
    /\ StableSorted(analysis.imagePoints, FlatMap(results, "imagePoints"), "lineNumber")

\* three fragments were merged whose concatenated entries were out of order
\* and of which two from different fragments share a position
C11_Witness ==
  /\ MergeReturned
  /\ Len(results) = 3
  /\ LET src == FlatMap(results, "tableOfContents")
     IN /\ \E a, b \in DOMAIN src : a < b /\ src[a].position > src[b].position
        /\ \E a, b \in DOMAIN src :
             /\ a < b
             /\ src[a].position = src[b].position
             /\ src[a].title \div 10 # src[b].title \div 10
        /\ analysis.tableOfContents # src

\* number of fragments of rs classified ct
Votes(rs, ct) == Cardinality({ k \in DOMAIN rs : rs[k].contentType = ct })

\* index of the first fragment of rs classified ct
FirstIndex(rs, ct) ==
  CHOOSE k \in DOMAIN rs :
    rs[k].contentType = ct /\ \A m \in 1..(k - 1) : rs[m].contentType # ct

\* C12: the merged content type is the classification of the most fragments;
\* among the most frequent ones it is the one occurring first in chunk order;
\* with no fragment it is 'non-fiction'.
C12_MajorityVote ==
  MergeReturned =>
    IF results = <<>> THEN analysis.contentType = "non-fiction"
    ELSE LET win == analysis.contentType
         IN /\ \E k \in DOMAIN results : results[k].contentType = win
            /\ \A k \in DOMAIN results :
                 LET ct == results[k].contentType
                 IN \/ Votes(results, ct) < Votes(results, win)
                    \/ /\ Votes(results, ct) = Votes(results, win)
                       /\ FirstIndex(results, win) <= FirstIndex(results, ct)

\* a tie between two classifications, won by the one seen first although the
\* other is neither the default nor the first in any fixed order of the types
C12_Witness ==
  /\ MergeReturned
  /\ Len(results) = 3
  /\ results[1].contentType = "technical"
  /\ results[2].contentType = "fiction"
  /\ results[3].contentType = "educational"
  /\ analysis.contentType = "technical"

\* ------------------------------------------------------------ C13, C14, C15
\* analyzeContent has returned from its chunked path
ChunkedAnalysisDone == pc = "analyzed" /\ Len(chunks) > 0

\* the collaborator call for chunk c (0-based) failed
CallFailed(c) == \E k \in DOMAIN callLog : callLog[k] = ReturnEvent(c, FALSE)

\* what chunk c contributes: nothing and the default type when its call
\* failed, the collaborator's rebased answer otherwise
Contribution(c) ==
  IF CallFailed(c)
  THEN [tableOfContents |-> <<>>, imagePoints |-> <<>>, contentType |-> "non-fiction"]
  ELSE [tableOfContents |->
          RebaseTOC(CollabTOC(lines, chunks[c + 1].content, 0, numbering), chunks[c + 1]),
        imagePoints |->
          RebaseImagePoints(CollabImagePoints(lines, chunks[c + 1].content, 0, numbering),
                            chunks[c + 1]),
        contentType |-> CollabContentType(lines, chunks[c + 1].content)]

Contributions == [c \in 1..Len(chunks) |-> Contribution(c - 1)]

Occurrences(s, e) == Cardinality({ k \in DOMAIN s : s[k] = e })

\* the sequences a and b hold the same elements the same number of times
SameBag(a, b) ==
  /\ Len(a) = Len(b)
  /\ \A k \in DOMAIN a : Occurrences(a, a[k]) = Occurrences(b, a[k])

\* C13: a failed collaborator call stops nothing - no fault state is ever
\* reached, a call is issued for every chunk, and the returned analysis holds
\* exactly the entries of the chunks whose call succeeded, a failed chunk
\* counting as an empty fragment classified 'non-fiction'.
C13_FailureIsolated ==
  /\ pc # "fault"
  /\ ChunkedAnalysisDone =>
       /\ \A c \in 0..(Len(chunks) - 1) :
            \E k \in DOMAIN callLog : callLog[k] = CallEvent(c)
       /\ SameBag(analysis.tableOfContents, FlatMap(Contributions, "tableOfContents"))
       /\ SameBag(analysis.imagePoints, FlatMap(Contributions, "imagePoints"))
       /\ LET win == analysis.contentType
          IN /\ \E c \in DOMAIN Contributions : Contributions[c].contentType = win
             /\ \A c \in DOMAIN Contributions :
                  LET ct == Contributions[c].contentType
                  IN \/ Votes(Contributions, ct) < Votes(Contributions, win)
                     \/ /\ Votes(Contributions, ct) = Votes(Contributions, win)
                        /\ FirstIndex(Contributions, win) <= FirstIndex(Contributions, ct)

\* the call for the first of several chunks failed although the chunk holds a
\* heading, a later call succeeded and its entries are in the analysis
C13_Witness ==
  /\ ChunkedAnalysisDone
  /\ Len(chunks) >= 2
  /\ CallFailed(0)
  /\ CollabTOC(lines, chunks[1].content, 0, numbering) # <<>>
  /\ ~CallFailed(1)
  /\ analysis.tableOfContents # <<>>
  /\ analysis.tableOfContents = Contribution(1).tableOfContents

\* indices of callLog holding an event of kind ev
EventsOf(ev) == { k \in DOMAIN callLog : callLog[k].ev = ev }

\* C14: collaborator calls are issued once per chunk in increasing chunk
\* order, never two at a time; the call for chunk c + 1 is issued only after
\* the call for chunk c has settled and the delay after it has elapsed; no
\* delay follows the last chunk.
C14_SequentialCalls ==
  /\ inFlight <= 1
  /\ \A k \in EventsOf("call") :
       /\ callLog[k].chunk = Cardinality({ m \in EventsOf("call") : m < k })
       /\ callLog[k].chunk > 0 =>
            \E r, d \in 1..(k - 1) :
              /\ r < d
              /\ callLog[r].ev = "return" /\ callLog[r].chunk = callLog[k].chunk - 1
              /\ callLog[d] = DelayEvent(callLog[k].chunk - 1)
  /\ \A k \in EventsOf("return") : callLog[k - 1] = CallEvent(callLog[k].chunk)
  /\ \A k \in EventsOf("delay") :
       /\ callLog[k].chunk < Len(chunks) - 1
       /\ callLog[k - 1].ev = "return" /\ callLog[k - 1].chunk = callLog[k].chunk
  /\ ChunkedAnalysisDone =>
       /\ Cardinality(EventsOf("call")) = Len(chunks)
       /\ callLog[Len(callLog)].ev = "return"

\* three chunks were analysed: three calls, two delays
C14_Witness ==
  /\ ChunkedAnalysisDone
  /\ Len(chunks) = 3
  /\ Cardinality(EventsOf("call")) = 3
  /\ Cardinality(EventsOf("delay")) = 2

\* C15 as stated: every invocation (i, N) of the progress callback comes
\* after the collaborator call for chunk i (the i-th chunk) has completed.
C15_ProgressAfterCall ==
  \A k \in EventsOf("progress") :
    \E r \in 1..(k - 1) :
      callLog[r].ev = "return" /\ callLog[r].chunk = callLog[k].chunk - 1

\* C15, amended: the callback is invoked once per chunk with (i, N) for
\* i = 1..N in order, each time right before the collaborator call for the
\* i-th chunk is issued, and (for i > 1) after the call for the chunk before
\* it has completed.
C15_ProgressBeforeCall ==
  /\ \A k \in EventsOf("progress") :
       /\ callLog[k].chunk = 1 + Cardinality({ m \in EventsOf("progress") : m < k })
       /\ callLog[k].arg = Len(chunks)
       /\ k < Len(callLog) /\ callLog[k + 1] = CallEvent(callLog[k].chunk - 1)
       /\ callLog[k].chunk > 1 =>
            \E r \in 1..(k - 1) :
              callLog[r].ev = "return" /\ callLog[r].chunk = callLog[k].chunk - 2
  /\ (ChunkedAnalysisDone /\ onProgress) =>
       Cardinality(EventsOf("progress")) = Len(chunks)
  /\ ~onProgress => EventsOf("progress") = {}

\* a chunked analysis with the callback supplied has finished: N >= 2
\* invocations, the last one (N, N)
C15_Witness ==
  /\ ChunkedAnalysisDone
  /\ onProgress
  /\ Len(chunks) >= 2
  /\ \E k \in EventsOf("progress") :
       callLog[k].chunk = Len(chunks) /\ callLog[k].arg = Len(chunks)

\* ------------------------------------------------------------ C16, C17, C18
Classified == stage = "classified"

TrimmedLine == trim(headingLine)

\* number of '#' the string starts with
LeadingHashes(t) == RunEnd(t, 1, {"#"}) - 1

\* 1 to 6 '#' followed by whitespace
MarkdownForm(t) ==
  /\ LeadingHashes(t) \in 1..6
  /\ LeadingHashes(t) < Len(t)
  /\ t[LeadingHashes(t) + 1] \in Whitespace

\* the text after the '#' and the whitespace following them
AfterHashes(t) == From(t, RunEnd(t, LeadingHashes(t) + 1, Whitespace))

\* some pattern of the table matches
TableMatches(t) == LET ms == CHAPTER_PATTERNS(t) IN \E k \in DOMAIN ms : ms[k].ok

\* C16: the first rule that matches decides - the markdown form gives the
\* number of '#' as level and the text after them as title; otherwise the
\* first matching pattern of the table gives title and level; otherwise the
\* short-uppercase heuristic; an empty or whitespace-only line is no heading.
\* '# Chapter 1' has level 1, 'PART 1' has level 1.
C16_FirstRuleWins ==
  Classified =>
    LET t == TrimmedLine
    IN /\ t = <<>> => headingResult = NotHeading
       /\ (t # <<>> /\ MarkdownForm(t)) =>
             headingResult = Heading(AfterHashes(t), LeadingHashes(t))
       /\ (t # <<>> /\ ~MarkdownForm(t) /\ TableMatches(t)) =>
             headingResult = TableHeading(t)
       /\ (t # <<>> /\ ~MarkdownForm(t) /\ ~TableMatches(t)) =>
             headingResult = CapsHeading(t)
       /\ headingLine = <<"#", " ", "C", "h", "a", "p", "t", "e", "r", " ", "1">> => headingResult.level = 1
       /\ headingLine = <<"P", "A", "R", "T", " ", "1">> => headingResult.level = 1

\* 'PART 1 ONE' was classified: the table makes it a level-1 heading while the
\* heuristic alone would have made it a level-2 heading
C16_Witness ==
  /\ Classified
  /\ ~MarkdownForm(TrimmedLine)
  /\ TableMatches(TrimmedLine)
  /\ CapsHeading(TrimmedLine).isHeading
  /\ CapsHeading(TrimmedLine).level = 2
  /\ headingResult.isHeading
  /\ headingResult.level = 1

\* the level of each pattern of the table, in table order: chapter (jang),
\* pyeon, part (bu), section (jeol), numbered jang, Korean front/back matter,
\* Chapter, Part, Section, English front/back matter, numbered, roman
PatternLevels == <<2, 2, 1, 3, 2, 1, 2, 1, 3, 1, 1, 1>>

\* C17: when the table decides, the level is the fixed level of the matched
\* pattern's keyword class - 1 for part markers, 2 for chapter markers, 3 for
\* section markers, 1 for front/back matter, numbered and roman headings -
\* whatever the rest of the line holds.
C17_LevelByKeywordClass ==
  (Classified /\ TrimmedLine # <<>> /\ ~MarkdownForm(TrimmedLine)
     /\ TableMatches(TrimmedLine)) =>
    /\ FirstPattern(TrimmedLine) \in DOMAIN PatternLevels
    /\ headingResult.isHeading
    /\ headingResult.level = PatternLevels[FirstPattern(TrimmedLine)]

\* a chapter marker followed by text that names a part: still level 2
C17_Witness ==
  /\ Classified
  /\ ~MarkdownForm(TrimmedLine)
  /\ FirstPattern(TrimmedLine) = 7
  /\ ContainsIgnoreCase(CHAPTER_PATTERNS(TrimmedLine)[7].m2, PartWord)
  /\ headingResult.level = 2

\* a line that neither the markdown rule nor the table decides
HeuristicDecides ==
  Classified /\ TrimmedLine # <<>> /\ ~MarkdownForm(TrimmedLine) /\ ~TableMatches(TrimmedLine)

Letters == LowerSet \cup UpperSet \cup HangulSet

\* the sentence-ending characters (those of detectSentenceEnd)
SentenceTerminals == {".", "!", "?", "U+3002", "U+FF01", "U+FF1F"}

\* C18 as stated: such a line is a heading (level 2, title the trimmed line)
\* exactly when it has 2..50 characters, equals its upper-cased form, holds a
\* letter and does not end in sentence-terminal punctuation ('.', '!', '?').
C18_HeuristicSentenceEnd ==
  HeuristicDecides =>
    LET t == TrimmedLine
    IN /\ headingResult.isHeading <=>
            /\ Len(t) >= 2 /\ Len(t) <= 50
            /\ t = toUpperCase(t)
            /\ \E k \in DOMAIN t : t[k] \in Letters
            /\ t[Len(t)] \notin SentenceTerminals
       /\ headingResult.isHeading => headingResult = Heading(t, 2)

\* C18, amended: such a line is a heading (level 2, title the trimmed line)
\* exactly when it has 2..50 characters, equals its upper-cased form, holds a
\* letter A-Z or a Hangul syllable, and does not end in a full stop, comma or
\* semicolon (ASCII or CJK); '!' and '?' at the end do not rule it out.
\* 'CHAPTER ONE' is a heading of level 2.
C18_HeuristicEndPunctuation ==
  /\ HeuristicDecides =>
       LET t == TrimmedLine
       IN /\ headingResult.isHeading <=>
               /\ Len(t) >= 2 /\ Len(t) <= 50
               /\ t = toUpperCase(t)
               /\ \E k \in DOMAIN t : (t[k] \in UpperSet \/ t[k] \in HangulSet)
               /\ t[Len(t)] \notin {".", "U+3002", ",", "U+FF0C", ";", "U+FF1B"}
          /\ headingResult.isHeading => headingResult = Heading(t, 2)
  /\ (Classified /\ headingLine = <<"C", "H", "A", "P", "T", "E", "R", " ", "O", "N", "E">>) =>
       headingResult = Heading(headingLine, 2)

\* an upper-case line ending in '!' was classified a heading by the heuristic
C18_Witness ==
  /\ HeuristicDecides
  /\ TrimmedLine[Len(TrimmedLine)] = "!"
  /\ headingResult = Heading(TrimmedLine, 2)

\* ------------------------------------------------------ C19  (SpecPreprocess)
\* C19: preprocessContent is idempotent: for every text and every option set,
\* applying it to its own result with the same options gives that result again.
C19_Idempotent == stage = "reprocessed" => reprocessed = preprocessed

\* ------------------------------------------------------ C20  (SpecPreprocess)
DetectRan == stage \in {"preprocessed", "reprocessed"} /\ docOptions.detectChapters

\* the pass replaced line k by something else than the line itself
Rewrote(k) == formatted[k] # <<detectInput[k]>>

\* the classifier says heading and the trimmed line is not in markdown form
HeadingLike(k) ==
  /\ trim(detectInput[k]) # <<>>
  /\ isChapterHeading(detectInput[k]).isHeading
  /\ Head(trim(detectInput[k])) # "#"

\* blank line, '#' x level, a space, the title, blank line
HeadingForm(k) ==
  LET h == isChapterHeading(detectInput[k])
  IN formatted[k] = <<(<<>>), [m \in 1..h.level |-> "#"] \o <<" ">> \o h.title, (<<>>)>>

\* C20 as stated: with detectChapters, a line is rewritten into markdown
\* heading form only if the input line just before it is blank, the classifier
\* calls it a heading and it is not markdown already; a heading-like line right
\* after a non-blank input line is left unchanged.
C20_OnlyAfterBlankInputLine ==
  DetectRan =>
    \A k \in DOMAIN detectInput :
      /\ Rewrote(k) => /\ k > 1 /\ trim(detectInput[k - 1]) = <<>>
                       /\ HeadingLike(k)
                       /\ HeadingForm(k)
      /\ (k > 1 /\ trim(detectInput[k - 1]) # <<>>) => ~Rewrote(k)

\* C20 (amended): with detectChapters, a line is rewritten into markdown heading
\* form exactly when it is heading-like (classified a heading, not markdown
\* already) and it is the first input line, or the input line just before it
\* is blank, or that line was itself rewritten by the pass; every other line,
\* so a heading-like line right after a non-blank line that stayed as it was,
\* is left unchanged.
C20_AfterBlankOrRewrittenLine ==
  DetectRan =>
    /\ Len(formatted) = Len(detectInput)
    /\ \A k \in DOMAIN detectInput :
         /\ Rewrote(k) <=> /\ HeadingLike(k)
                           /\ \/ k = 1
                              \/ trim(detectInput[k - 1]) = <<>>
                              \/ Rewrote(k - 1)
         /\ Rewrote(k) => HeadingForm(k)

\* a heading-like line right after a blank input line was rewritten
C20_Witness ==
  /\ DetectRan
  /\ \E k \in DOMAIN detectInput :
       /\ k > 1 /\ trim(detectInput[k - 1]) = <<>>
       /\ HeadingLike(k) /\ Rewrote(k) /\ HeadingForm(k)

\* ------------------------------------------------------------ C27  (Spec)
LastLineOf(c) == c.content[Len(c.content)]

\* C27: chunking makes progress - every chunk after the first holds a line
\* beyond the last line of the chunk before it, so startLine and endLine grow
\* strictly from chunk to chunk and no two chunks have the same docText.
C27_ChunkingProgress ==
  SplitReturned =>
    /\ \A c \in 2..Len(chunks) :
         /\ \E k \in DOMAIN chunks[c].content :
              chunks[c].content[k] > LastLineOf(chunks[c - 1])
         /\ chunks[c].startLine > chunks[c - 1].startLine
         /\ chunks[c].endLine > chunks[c - 1].endLine
    /\ \A c, d \in DOMAIN chunks : c # d => chunks[c].content # chunks[d].content

\* ------------------------------------------------------------ C28  (Spec)
\* C28: needsChunking and splitIntoChunks agree - more than one chunk is
\* returned exactly when needsChunking is true, and a document at or under
\* CHUNK_SIZE gives exactly one chunk whose docText is the document.
C28_ChunkingAgrees ==
  pc = "done" =>
    /\ (Len(chunks) > 1) <=> needsChunking(lines)
    /\ ~needsChunking(lines) =>
         Len(chunks) = 1 /\ chunks[1].content = Range0(Len(lines))

\* ------------------------------------------------------------ C29  (SpecEdit)
ChunkedEditDone == pc = "edited" /\ Len(chunks) > 0

\* the lines of the document in a text, the blank ones left aside
DocLinesOf(text) ==
  LET Told(e) == ~BlankEntry(lines, e)
  IN SelectSeq(text, Told)

\* C29: when the collaborator hands every chunk's text back unchanged,
\* proofreadContent and formatContentWithAI on a document above their chunking
\* threshold return a text in which every line of the document occurs once, in
\* the original order: the overlap lines of consecutive chunks are not
\* repeated.  (Blank lines are left aside: the final trim and the separators
\* add and remove some.  failures = 0: every call was answered.)
C29_ReassembledOnce ==
  (ChunkedEditDone /\ failures = 0) =>
    DocLinesOf(correctedContent) = DocLinesOf(Range0(Len(lines)))

\* preprocessContent returned and none of the four options was set
PlainRan == stage \in {"preprocessed", "reprocessed"} /\ docOptions = NoOptions

\* the line starts with one to six '#' followed by whitespace
HashLine(l) ==
  /\ LeadingHashes(l) \in 1..6
  /\ LeadingHashes(l) < Len(l)
  /\ l[LeadingHashes(l) + 1] \in Whitespace

\* the lines of a, in their order, are among the lines of b
RECURSIVE Embeds(_, _)
Embeds(a, b) ==
  IF a = <<>> THEN TRUE
  ELSE IF b = <<>> THEN FALSE
  ELSE IF a[1] = b[1] THEN Embeds(Tail(a), Tail(b))
  ELSE Embeds(a, Tail(b))

\* the lines of the document that are not empty and are no '#' lines
KeptLines ==
  SelectSeq(split(NormalizeLineEndings(docText)),
            LAMBDA l : l # <<>> /\ ~HashLine(l))

\* C30: with the four options off, every non-empty line of the document that
\* does not start with one to six '#' and whitespace is a line of the
\* output, unchanged and in the same order, and the output does not begin
\* with a newline and holds no three newlines in a row
C30_PlainKeepsLines ==
  PlainRan =>
    /\ Embeds(KeptLines, split(preprocessed))
    /\ preprocessed # <<>> => preprocessed[1] # "\n"
    /\ \A k \in 1..(Len(preprocessed) - 2) :
         ~(preprocessed[k] = "\n" /\ preprocessed[k + 1] = "\n"
             /\ preprocessed[k + 2] = "\n")

\* splitByChapters has returned
ChaptersDone == stage = "chapters"

\* the lines of the book
BookLines == split(bookText)

\* the lines (from 1) that isChapterHeading calls a heading of level 1 or 2
ChapterStarts ==
  { k \in DOMAIN BookLines :
      LET h == isChapterHeading(trim(BookLines[k]))
      IN h.isHeading /\ h.level <= 2 }

\* the first of them, or the line after the last line
FirstStart ==
  IF ChapterStarts = {} THEN Len(BookLines) + 1
  ELSE CHOOSE k \in ChapterStarts : \A m \in ChapterStarts : k <= m

\* the first of them after line k, or the line after the last line
NextStart(k) ==
  IF \E m \in ChapterStarts : m > k
  THEN CHOOSE m \in ChapterStarts : m > k /\ \A n \in ChapterStarts : n > k => m <= n
  ELSE Len(BookLines) + 1

\* the text before the first such heading holds a character that is no
\* white space
LeadingText == \E k \in 1..(FirstStart - 1) : trim(BookLines[k]) # <<>>

\* the chapters that follow the leading chapter
RealChapters == IF LeadingText THEN Tail(chaptersRaw) ELSE chaptersRaw

\* the n-th (from 1) of the chapter headings
NthStart(n) ==
  CHOOSE k \in ChapterStarts : Cardinality({ m \in ChapterStarts : m <= k }) = n

\* the lines lo..hi of the book, joined and trimmed
Between(lo, hi) == trim(join(SubSeq(BookLines, lo, hi)))

\* there is one chapter for each heading of level 1 or 2, in the order of the
\* document, with startLine the index of its heading and with the lines up to
\* the next such heading as its content; the text before the first of them
\* is one more chapter, the first, exactly when it holds a character that is
\* no white space
ChapterBoundaries ==
  /\ Len(RealChapters) = Cardinality(ChapterStarts)
  /\ Len(chaptersRaw) = Len(RealChapters) + (IF LeadingText THEN 1 ELSE 0)
  /\ \A n \in DOMAIN RealChapters :
       /\ RealChapters[n].startLine = NthStart(n) - 1
       /\ RealChapters[n].content = Between(NthStart(n) + 1, NextStart(NthStart(n)) - 1)
  /\ LeadingText => chaptersRaw[1].content = Between(1, FirstStart - 1)

\* C21: splitByChapters starts a chapter at exactly the headings of level 1 or
\* 2, in document order, with startLine the heading's line index; the text
\* before the first of them is one leading chapter exactly when it holds a
\* character that is no white space, and that chapter's title is the title
\* of no real chapter
C21_ChaptersAtHeadings ==
  ChaptersDone =>
    /\ ChapterBoundaries
    /\ LeadingText =>
         \A n \in DOMAIN RealChapters : RealChapters[n].title # chaptersRaw[1].title

\* generateEPUB has its chapters
EpubDone == stage = "epub"

\* no line of the book is a markdown heading of level 1 or 2
NoExportHeading == \A k \in DOMAIN BookLines : ~ExportHeading(BookLines[k]).isHeading

\* C22 as stated: splitIntoChapters returns at least one chapter, and exactly
\* one chapter that holds the entire document when no line is a markdown
\* heading of level 1 or 2
C22_SplitNeverZero ==
  EpubDone =>
    /\ Len(exportChapters) >= 1
    /\ NoExportHeading =>
         /\ Len(exportChapters) = 1
         /\ trim(exportChapters[1].content) = trim(bookText)

\* C22: generateEPUB never goes on with zero chapters - splitIntoChapters
\* returns only chapters whose content is not empty, and when it returns none
\* generateEPUB takes one chapter whose content is the entire document; a
\* document without a markdown heading of level 1 or 2 gives one chapter of
\* level 1, holding the trimmed document when that is not empty and the
\* entire document otherwise
C22_ExportNeverZero ==
  EpubDone =>
    /\ Len(epubChapters) >= 1
    /\ \A k \in DOMAIN exportChapters : exportChapters[k].content # <<>>
    /\ exportChapters = <<>> =>
         Len(epubChapters) = 1 /\ epubChapters[1].content = bookText
    /\ NoExportHeading =>
         /\ Len(epubChapters) = 1
         /\ epubChapters[1].level = 1
         /\ epubChapters[1].content =
              (IF trim(bookText) # <<>> THEN trim(bookText) ELSE bookText)

\* a book of headings only: splitIntoChapters returned nothing and
\* generateEPUB made the one chapter up
C22_Witness ==
  /\ EpubDone
  /\ ~NoExportHeading
  /\ exportChapters = <<>>
  /\ Len(epubChapters) = 1

\* the export has its table of contents and its page
PdfDone == stage = "pdf"

\* the line starts with one to six '#', then white space, then at least one
\* more character
TitledHashLine(l) == HashLine(l) /\ LeadingHashes(l) + 1 < Len(l)

\* C25: extractTableOfContents returns one entry for each markdown heading
\* line, in the order of the document, with the line number from 1 as
\* position and the number of '#' as level, and no two entries have the same
\* id
C25_TocEntriesDistinct ==
  PdfDone =>
    /\ \A k \in DOMAIN BookLines :
         TitledHashLine(BookLines[k]) <=>
           \E n \in DOMAIN tableOfContents : tableOfContents[n].position = k
    /\ \A n \in DOMAIN tableOfContents :
         /\ tableOfContents[n].position \in DOMAIN BookLines
         /\ tableOfContents[n].level = LeadingHashes(BookLines[tableOfContents[n].position])
         /\ n > 1 => tableOfContents[n - 1].position < tableOfContents[n].position
    /\ \A n, m \in DOMAIN tableOfContents :
         n # m => tableOfContents[n].id # tableOfContents[m].id

\* C26: every entry of the table of contents has the id that markdownToHtml
\* gave to the heading element of the same line, and that element is the
\* first of the page with this id, so that the link '#id' leads to it
C26_TocIdIsHeadingId ==
  PdfDone =>
    \A n \in DOMAIN tableOfContents :
      \E h \in DOMAIN contentHtml :
        /\ contentHtml[h].position = tableOfContents[n].position
        /\ contentHtml[h].id = tableOfContents[n].id
        /\ \A g \in 1..(h - 1) : contentHtml[g].id # tableOfContents[n].id

\* analyzeReadability has returned for docText
Analyzed == stage \in {"analyzed", "appended"}

\* the lines (from 1) of ls that hold more than white space
NonEmptyOnes(ls) == { k \in DOMAIN ls : trim(ls[k]) # <<>> }

\* more than 30% of the non-empty lines are longer than 200 characters
LongShare(ls) ==
  Cardinality({ k \in NonEmptyOnes(ls) : Len(ls[k]) > 200 }) * 10
    > Cardinality(NonEmptyOnes(ls)) * 3

\* some line is a markdown heading or a heading for isChapterHeading
HeadingDetected(ls) ==
  \E k \in DOMAIN ls : HashLine(ls[k]) \/ isChapterHeading(ls[k]).isHeading

\* the non-empty lines are longer than 150 characters on average
LongAverage(ls) ==
  /\ NonEmptyOnes(ls) # {}
  /\ SumRange([k \in DOMAIN ls |-> IF trim(ls[k]) # <<>> THEN Len(ls[k]) ELSE 0],
              1, Len(ls)) > 150 * Cardinality(NonEmptyOnes(ls))

\* the first characters of the runs of two or more spaces
RunsOfSpaces(s) ==
  { p \in 1..(Len(s) - 1) :
      /\ s[p] = " " /\ s[p + 1] = " "
      /\ (p > 1 => s[p - 1] # " ") }

\* the penalties that apply to the text s of the lines ls
Penalties(s, ls) ==
  <<IF LongShare(ls) THEN 20 ELSE 0,
    IF ~HeadingDetected(ls) /\ Len(s) > 3000 THEN 15 ELSE 0,
    IF LongAverage(ls) THEN 15 ELSE 0,
    IF Cardinality(RunsOfSpaces(s)) > 20 THEN 10 ELSE 0>>

\* C23: the score is 100 less the penalties that apply, and no less than 0;
\* issues and suggestions hold one entry for each penalty that applies
C23_ScoreIsSumOfPenalties ==
  Analyzed =>
    LET due == Penalties(docText, split(docText))
    IN /\ readability.score \in 0..100
       /\ readability.score = Max(0, 100 - SumRange(due, 1, 4))
       /\ Len(readability.issues) = Cardinality({ k \in 1..4 : due[k] > 0 })
       /\ Len(readability.suggestions) = Len(readability.issues)
       /\ Len(readability.issues) <= 4

\* a text that is charged three penalties
C23_Witness ==
  /\ Analyzed
  /\ Len(readability.issues) = 3
  /\ readability.score = 50

\* C24: 25 lines of more than 200 characters after a text with a heading
\* never raise the score
C24_AppendingNeverRaises ==
  stage = "appended" /\ HeadingDetected(split(docText)) =>
    appendedReadability.score <= readability.score

\* a text with a heading whose score went down when the lines came after it
C24_Witness ==
  /\ stage = "appended"
  /\ HeadingDetected(split(docText))
  /\ Len(docText) <= 3000
  /\ appendedReadability.score < readability.score
====
